---------------------------- MODULE Spec2Model ----------------------------
(***************************************************************************)
(* Decoders of path-of-mirrors: the poe.ninja protobuf ladder decoder      *)
(* (backend/scripts/poeninja_proto.py) and the Path of Building import     *)
(* code codec (backend/src/contexts/builds/services/pob.py).               *)
(*                                                                         *)
(* Every decoder is a pure function.  Each specification below draws the   *)
(* arguments of one call from a bounded set (Init), and its actions apply  *)
(* the function and record what the call returned or raised.               *)
(*                                                                         *)
(* Representation of Python values:                                        *)
(*   int    a sequence of bits, least significant first, without trailing  *)
(*          zeros (<<>> is 0): Python integers are unbounded and the       *)
(*          decoder shifts by 7 bits per varint byte, so no fixed width is *)
(*          wide enough;                                                   *)
(*   bytes  a sequence of numbers 0..255;                                  *)
(*   str    a sequence of code points;                                     *)
(*   dict   a sequence of entries [key, vals] in insertion order;          *)
(*   an exception is a record whose err field names its class.             *)
(***************************************************************************)
EXTENDS Integers, Sequences, FiniteSets, TLC

VARIABLES
    pc,      \* "ready" before the call, the name of the call after it
    input,   \* the arguments of the call
    output   \* what the call returned or raised

vars == <<pc, input, output>>

-----------------------------------------------------------------------------
(* Bounds of the model *)

\* longest buffer of the exhaustive enumeration over WireBytes
MaxLen == 4
\* bytes before and after an encoded varint
MaxPad == 2
\* rows of a column of an encoded ladder
MaxRows == 2

\* the longest little-endian byte string an integer argument is built from
MaxIntBytes == 4
\* code points of the text of an import code
MaxText == 1
\* places of an import code where whitespace is inserted
MaxGaps == 1
\* characters of a code of the exhaustive enumeration over CodeChars
MaxCode == 3

-----------------------------------------------------------------------------
(* Python int *)

Max(a, b) == IF a >= b THEN a ELSE b

Min(a, b) == IF a <= b THEN a ELSE b

RECURSIVE Pow2(_)
Pow2(k) == IF k = 0 THEN 1 ELSE 2 * Pow2(k - 1)

RECURSIVE NatBits(_)
NatBits(n) == IF n = 0 THEN <<>> ELSE <<n % 2>> \o NatBits(n \div 2)

RECURSIVE BitsNat(_)
BitsNat(b) == IF b = <<>> THEN 0 ELSE b[1] + 2 * BitsNat(Tail(b))

RECURSIVE Normalize(_)
Normalize(b) ==
    IF b = <<>> THEN <<>>
    ELSE IF b[Len(b)] = 1 THEN b
    ELSE Normalize(SubSeq(b, 1, Len(b) - 1))

Zeros(k) == [i \in 1..k |-> 0]

BitAt(b, i) == IF i <= Len(b) THEN b[i] ELSE 0

\* a << k
ShiftLeft(b, k) == IF b = <<>> THEN <<>> ELSE Zeros(k) \o b

\* a >> k
ShiftRight(b, k) == SubSeq(b, k + 1, Len(b))

\* a | b
BitOr(a, b) ==
    Normalize([i \in 1..Max(Len(a), Len(b)) |->
                  IF BitAt(a, i) = 1 \/ BitAt(b, i) = 1 THEN 1 ELSE 0])

\* a & (2^k - 1), a small number
LowBits(b, k) == BitsNat(SubSeq(b, 1, Min(k, Len(b))))

\* int.bit_length()
BitLength(b) == Len(b)

ByteBits(x) == [i \in 1..8 |-> (x \div Pow2(i - 1)) % 2]

RECURSIVE ConcatByteBits(_)
ConcatByteBits(bytes) ==
    IF bytes = <<>> THEN <<>>
    ELSE ByteBits(bytes[1]) \o ConcatByteBits(Tail(bytes))

\* int.from_bytes(bytes, "little")
FromBytesLittle(bytes) == Normalize(ConcatByteBits(bytes))

\* int.to_bytes(length, "little"), for length >= the minimal length
ToBytesLittle(b, length) ==
    [j \in 1..length |->
        BitsNat([i \in 1..8 |-> BitAt(b, 8 * (j - 1) + i)])]

\* a <= n for a small number n
IntLeq(a, n) == Len(a) <= Len(NatBits(n)) /\ BitsNat(a) <= n

\* A length as a buffer offset.  The decoder only adds a length to a position,
\* which it then compares with a buffer length or slices the buffer with, so
\* every length of more than 30 bits behaves like 2^30, which lies past the
\* end of every buffer of the model; shorter lengths are exact.
ToPos(b) == IF Len(b) <= 30 THEN BitsNat(b) ELSE Pow2(30)

\* buffer[lo:hi]
Slice(buffer, lo, hi) == SubSeq(buffer, Min(lo, Len(buffer)) + 1, Min(hi, Len(buffer)))

-----------------------------------------------------------------------------
(* _decode_varint *)

VarintMask == 128

ShiftStepBug == 7 + 1

ShiftStep == 7

VarintOk(value, pos) == [err |-> "none", value |-> value, pos |-> pos]

VarintErr(e, pos) == [err |-> e, value |-> <<>>, pos |-> pos]

RECURSIVE DecodeVarintLoop(_, _, _, _)
DecodeVarintLoop(buffer, pos, shift, result) ==
    IF pos >= Len(buffer) THEN VarintErr("IndexError", pos)
    ELSE LET value == buffer[pos + 1]
             acc == BitOr(result, ShiftLeft(NatBits(value % VarintMask), shift))
         IN  IF value < 128 THEN VarintOk(acc, pos + 1)
             ELSE DecodeVarintLoop(buffer, pos + 1, shift + ShiftStep, acc)

\* a varint read that leaves the position where it was
DecodeVarintInPlace(buffer, pos) ==
    [DecodeVarintLoop(buffer, pos, 0, <<>>) EXCEPT !.pos = pos]

DecodeVarint(buffer, pos) == DecodeVarintLoop(buffer, pos, 0, <<>>)

-----------------------------------------------------------------------------
(* Decoded values and the field map *)

IntVal(n) == [t |-> "int", n |-> n, b |-> <<>>, m |-> <<>>]

BytesVal(b) == [t |-> "bytes", n |-> <<>>, b |-> b, m |-> <<>>]

DictVal(m) == [t |-> "dict", n |-> <<>>, b |-> <<>>, m |-> m]

DictKeys(d) == {d[i].key : i \in 1..Len(d)}

DictHas(d, key) == key \in DictKeys(d)

\* d[key], for a key of d
DictAt(d, key) == d[CHOOSE i \in 1..Len(d) : d[i].key = key].vals

\* d.get(key, [])
DictGetList(d, key) == IF DictHas(d, key) THEN DictAt(d, key) ELSE <<>>

\* d[key] = vals
DictSet(d, key, vals) ==
    IF DictHas(d, key)
    THEN [i \in 1..Len(d) |-> IF d[i].key = key THEN [key |-> key, vals |-> vals] ELSE d[i]]
    ELSE Append(d, [key |-> key, vals |-> vals])

SetDefaultAppendPrepend(fields, field_number, value) ==
    IF DictHas(fields, field_number)
    THEN DictSet(fields, field_number, <<value>> \o DictAt(fields, field_number))
    ELSE Append(fields, [key |-> field_number, vals |-> <<value>>])

\* fields.setdefault(field_number, []).append(value)
SetDefaultAppend(fields, field_number, value) ==
    IF DictHas(fields, field_number)
    THEN DictSet(fields, field_number, Append(DictAt(fields, field_number), value))
    ELSE Append(fields, [key |-> field_number, vals |-> <<value>>])

-----------------------------------------------------------------------------
(* Wire types *)

WIRE_VARINT == 0

WIRE_64BIT == 1

WIRE_LENGTH_DELIMITED == 2

WIRE_START_GROUP == 3

WIRE_END_GROUP == 4

WIRE_32BIT == 5

-----------------------------------------------------------------------------
(* _parse_message_internal, _try_parse_message, _parse_group, _parse_value *)

ParseOk(fields, pos) == [err |-> "none", fields |-> fields, pos |-> pos]

\* an exception leaving a loop; fields are the locals the exception discards
ParseErr(e, fields, pos) == [err |-> e, fields |-> fields, pos |-> pos]

ValueOk(value, pos) == [err |-> "none", value |-> value, pos |-> pos]

ValueErr(e, pos) == [err |-> e, value |-> IntVal(<<>>), pos |-> pos]

NestedKeyMaxBug == 3 - 1

NestedKeyMaxFour == 3 + 1

NestedKeyMax == 3

RECURSIVE ParseMessageLoop(_, _, _, _)
RECURSIVE ParseGroupLoop(_, _, _, _)
RECURSIVE ParseValue(_, _, _, _)
RECURSIVE FieldValue(_, _, _, _)
RECURSIVE TryParseMessage(_)

\* value = int.from_bytes(buffer[pos : pos + n], "little"); pos += n
ReadFixed(buffer, pos, n) ==
    ValueOk(IntVal(FromBytesLittle(Slice(buffer, pos, pos + n))), pos + n)

\* value, pos = _decode_varint(buffer, pos), v being what the call returned
VarintValue(v) ==
    IF v.err # "none" THEN ValueErr(v.err, v.pos) ELSE ValueOk(IntVal(v.value), v.pos)

\* value = nested if consumed else chunk, probe being what _try_parse_message
\* returned for the chunk
NestedOrChunk(chunk, probe, pos) ==
    ValueOk(IF probe.consumed THEN DictVal(probe.message) ELSE BytesVal(chunk), pos)

\* chunk = buffer[pos : pos + length]; pos += length; the probe of the chunk
SliceChunk(chunk, pos) == NestedOrChunk(chunk, TryParseMessage(chunk), pos)

\* the LENGTH_DELIMITED branch, l being the decoded length varint
LengthDelimitedValue(buffer, l) ==
    IF l.err # "none" THEN ValueErr(l.err, l.pos)
    ELSE SliceChunk(Slice(buffer, l.pos, l.pos + ToPos(l.value)), l.pos + ToPos(l.value))

ReadLengthDelimited(buffer, pos) == LengthDelimitedValue(buffer, DecodeVarint(buffer, pos))

\* what the caller of _parse_group receives, g being the outcome of its loop
GroupValue(g) ==
    IF g.err # "none" THEN ValueErr(g.err, g.pos) ELSE ValueOk(DictVal(g.fields), g.pos)

\* the START_GROUP branch: _parse_group(buffer, pos, group_field)
ParseGroup(buffer, pos, group_field) ==
    GroupValue(ParseGroupLoop(buffer, pos, group_field, <<>>))

\* the wire-type dispatch inside the loop of _parse_message_internal
FieldValue(buffer, pos, wire_type, field_number) ==
    IF wire_type = WIRE_VARINT THEN VarintValue(DecodeVarint(buffer, pos))
    ELSE IF wire_type = WIRE_64BIT THEN ReadFixed(buffer, pos, 8)
    ELSE IF wire_type = WIRE_LENGTH_DELIMITED THEN ReadLengthDelimited(buffer, pos)
    ELSE IF wire_type = WIRE_START_GROUP THEN ParseGroup(buffer, pos, field_number)
    ELSE IF wire_type = WIRE_END_GROUP THEN ValueErr("ValueError", pos)
    ELSE IF wire_type = WIRE_32BIT THEN ReadFixed(buffer, pos, 4)
    ELSE ValueErr("ValueError", pos)

\* _parse_value
ParseValue(buffer, pos, wire_type, field_number) ==
    IF wire_type = WIRE_VARINT THEN VarintValue(DecodeVarint(buffer, pos))
    ELSE IF wire_type = WIRE_64BIT THEN ReadFixed(buffer, pos, 8)
    ELSE IF wire_type = WIRE_LENGTH_DELIMITED THEN ReadLengthDelimited(buffer, pos)
    ELSE IF wire_type = WIRE_START_GROUP THEN ParseGroup(buffer, pos, field_number)
    ELSE IF wire_type = WIRE_32BIT THEN ReadFixed(buffer, pos, 4)
    ELSE ValueErr("ValueError", pos)

\* fields.setdefault(field_number, []).append(value) and the next iteration of
\* _parse_message_internal's loop, v being the decoded value
MessageStore(buffer, end, fields, field_number, v) ==
    IF v.err # "none" THEN ParseErr(v.err, fields, v.pos)
    ELSE ParseMessageLoop(buffer, v.pos, end,
                          SetDefaultAppend(fields, field_number, v.value))

\* one iteration of _parse_message_internal's loop, k being the decoded tag
MessageField(buffer, end, fields, k) ==
    IF k.err # "none" THEN ParseErr(k.err, fields, k.pos)
    ELSE MessageStore(buffer, end, fields, ShiftRight(k.value, 3),
                      FieldValue(buffer, k.pos, LowBits(k.value, 3),
                                 ShiftRight(k.value, 3)))

\* the while loop of _parse_message_internal
ParseMessageLoop(buffer, pos, end, fields) ==
    IF ~(pos < end) THEN ParseOk(fields, pos)
    ELSE MessageField(buffer, end, fields, DecodeVarint(buffer, pos))

ParseMessageInternal(buffer, start, end) == ParseMessageLoop(buffer, start, end, <<>>)

\* the append and the next iteration of _parse_group's loop
GroupStore(buffer, group_field, fields, field_number, v) ==
    IF v.err # "none" THEN ParseErr(v.err, fields, v.pos)
    ELSE ParseGroupLoop(buffer, v.pos, group_field,
                        SetDefaultAppend(fields, field_number, v.value))

\* one iteration of _parse_group's loop, k being the decoded tag
GroupField(buffer, group_field, fields, k) ==
    IF k.err # "none" THEN ParseErr(k.err, fields, k.pos)
    ELSE IF LowBits(k.value, 3) = WIRE_END_GROUP /\ ShiftRight(k.value, 3) = group_field
    THEN ParseOk(fields, k.pos)
    ELSE GroupStore(buffer, group_field, fields, ShiftRight(k.value, 3),
                    ParseValue(buffer, k.pos, LowBits(k.value, 3),
                               ShiftRight(k.value, 3)))

\* the while loop of _parse_group
ParseGroupLoop(buffer, pos, group_field, fields) ==
    IF ~(pos < Len(buffer)) THEN ParseOk(fields, pos)
    ELSE GroupField(buffer, group_field, fields, DecodeVarint(buffer, pos))

\* the test of _try_parse_message, r being what _parse_message_internal
\* returned or raised for the chunk
ProbeResult(chunk, r) ==
    IF /\ r.err = "none"
       /\ r.pos = Len(chunk)
       /\ \E key \in DictKeys(r.fields) : IntLeq(key, NestedKeyMax)
    THEN [message |-> r.fields, consumed |-> TRUE]
    ELSE [message |-> <<>>, consumed |-> FALSE]

\* _try_parse_message: IndexError and ValueError are the only exceptions the
\* decoder raises, and both are caught here
TryParseMessage(chunk) == ProbeResult(chunk, ParseMessageInternal(chunk, 0, Len(chunk)))

ParseMessageKeepsPartial(buffer) ==
    ParseMessageInternal(buffer, 0, Len(buffer)).fields

\* the try/except of _parse_message
CatchParseErrors(r) ==
    IF r.err \in {"IndexError", "ValueError"} THEN <<>> ELSE r.fields

\* _parse_message
ParseMessage(buffer) == CatchParseErrors(ParseMessageInternal(buffer, 0, Len(buffer)))

-----------------------------------------------------------------------------
(* bytes.decode("utf-8", errors) *)

\* the length of the sequence a lead byte announces; 0 for a byte that cannot
\* start a sequence
Utf8Need(b0) ==
    IF b0 < 128 THEN 1
    ELSE IF 194 <= b0 /\ b0 <= 223 THEN 2
    ELSE IF 224 <= b0 /\ b0 <= 239 THEN 3
    ELSE IF 240 <= b0 /\ b0 <= 244 THEN 4
    ELSE 0

\* whether b may be byte number j + 1 of a sequence whose lead byte is b0
Utf8ContOk(b0, j, b) ==
    IF j > 1 THEN 128 <= b /\ b <= 191
    ELSE IF b0 = 224 THEN 160 <= b /\ b <= 191
    ELSE IF b0 = 237 THEN 128 <= b /\ b <= 159
    ELSE IF b0 = 240 THEN 144 <= b /\ b <= 191
    ELSE IF b0 = 244 THEN 128 <= b /\ b <= 143
    ELSE 128 <= b /\ b <= 191

\* how many bytes from index i on form a prefix of a well-formed sequence of
\* k bytes, j of them being accepted already
RECURSIVE Utf8Run(_, _, _, _)
Utf8Run(bytes, i, j, k) ==
    IF j < k /\ i + j <= Len(bytes) /\ Utf8ContOk(bytes[i], j, bytes[i + j])
    THEN Utf8Run(bytes, i, j + 1, k)
    ELSE j

Utf8CodePoint(bytes, i, k) ==
    IF k = 2 THEN (bytes[i] % 32) * 64 + (bytes[i + 1] % 64)
    ELSE IF k = 3
    THEN (bytes[i] % 16) * 4096 + (bytes[i + 1] % 64) * 64 + (bytes[i + 2] % 64)
    ELSE (bytes[i] % 8) * 262144 + (bytes[i + 1] % 64) * 4096
             + (bytes[i + 2] % 64) * 64 + (bytes[i + 3] % 64)

REPLACEMENT_CHARACTER == 65533

RECURSIVE Utf8DecodeLoop(_, _, _, _)
Utf8DecodeLoop(bytes, i, errors, text) ==
    IF i > Len(bytes) THEN [err |-> "none", text |-> text]
    ELSE LET k == Utf8Need(bytes[i])
             j == IF k = 0 THEN 1 ELSE Utf8Run(bytes, i, 1, k)
         IN  IF k = 1 THEN Utf8DecodeLoop(bytes, i + 1, errors, Append(text, bytes[i]))
             ELSE IF k # 0 /\ j = k
             THEN Utf8DecodeLoop(bytes, i + k, errors,
                                 Append(text, Utf8CodePoint(bytes, i, k)))
             ELSE IF errors = "replace"
             THEN Utf8DecodeLoop(bytes, i + j, errors,
                                 Append(text, REPLACEMENT_CHARACTER))
             ELSE [err |-> "UnicodeDecodeError", text |-> <<>>]

Utf8Decode(bytes, errors) == Utf8DecodeLoop(bytes, 1, errors, <<>>)

-----------------------------------------------------------------------------
(* _decode_string *)

MAX_CODE_POINT == 1114111

RECURSIVE LStrip(_, _)
LStrip(s, ch) == IF s # <<>> /\ s[1] = ch THEN LStrip(Tail(s), ch) ELSE s

RECURSIVE RStrip(_, _)
RStrip(s, ch) ==
    IF s # <<>> /\ s[Len(s)] = ch THEN RStrip(SubSeq(s, 1, Len(s) - 1), ch) ELSE s

StripKeepsAll(s, ch) == s

\* str.strip(ch)
Strip(s, ch) == RStrip(LStrip(s, ch), ch)

\* the isinstance(value, int) branch
DecodeStringInt(n) ==
    IF IntLeq(n, MAX_CODE_POINT) THEN <<BitsNat(n)>>
    ELSE LET length == Max(1, (BitLength(n) + 7) \div 8)
         IN  Strip(Utf8Decode(ToBytesLittle(n, length), "replace").text, 0)

RECURSIVE DecodeString(_)
RECURSIVE DecodeStringList(_)
RECURSIVE DecodeStringDict(_)

\* the isinstance(value, list) branch
DecodeStringList(entries) ==
    IF entries = <<>> THEN <<>>
    ELSE DecodeString(entries[1]) \o DecodeStringList(Tail(entries))

\* the isinstance(value, dict) branch
DecodeStringDict(m) ==
    IF m = <<>> THEN <<>>
    ELSE DecodeStringList(m[1].vals) \o DecodeStringDict(Tail(m))

DecodeString(value) ==
    IF value.t = "dict" THEN DecodeStringDict(value.m)
    ELSE IF value.t = "bytes" THEN Utf8Decode(value.b, "replace").text
    ELSE DecodeStringInt(value.n)

-----------------------------------------------------------------------------
(* _parse_summaries, parse_build_search_payload *)

\* "name"
STR_NAME == <<110, 97, 109, 101>>

\* "account"
STR_ACCOUNT == <<97, 99, 99, 111, 117, 110, 116>>

SearchData(summaries) == [err |-> "none", summaries |-> summaries]

SearchRaises(e) == [err |-> e, summaries |-> <<>>]

\* column_map[name] = column.get(2, []) unless the name is empty, and the
\* next iteration of the first loop of _parse_summaries
RECURSIVE ColumnMapLoop(_, _, _)
ColumnMapStore(columns, i, column_map, name) ==
    IF name = <<>> THEN ColumnMapLoop(columns, i + 1, column_map)
    ELSE ColumnMapLoop(columns, i + 1,
                       DictSet(column_map, name, DictGetList(columns[i].m, NatBits(2))))

\* the first loop of _parse_summaries; column.get raises AttributeError on a
\* column that is an int or bytes
ColumnMapLoop(columns, i, column_map) ==
    IF i > Len(columns) THEN [err |-> "none", map |-> column_map]
    ELSE IF columns[i].t # "dict" THEN [err |-> "AttributeError", map |-> column_map]
    ELSE ColumnMapStore(columns, i, column_map,
                        DecodeStringList(DictGetList(columns[i].m, NatBits(1))))

DecodeEach(values) == [i \in 1..Len(values) |-> DecodeString(values[i])]

RECURSIVE ZipKeepsEmpty(_, _, _)
ZipKeepsEmpty(accounts, names, i) ==
    IF i > Min(Len(accounts), Len(names)) THEN <<>>
    ELSE <<[account |-> accounts[i], character |-> names[i]]>>
             \o ZipKeepsEmpty(accounts, names, i + 1)

ZipSummariesFilterFirst(accounts, names) ==
    ZipKeepsEmpty(SelectSeq(accounts, LAMBDA a : a # <<>>),
                  SelectSeq(names, LAMBDA c : c # <<>>), 1)

\* the zip loop of _parse_summaries, from row i on
RECURSIVE ZipLoop(_, _, _)
ZipLoop(accounts, names, i) ==
    IF i > Min(Len(accounts), Len(names)) THEN <<>>
    ELSE (IF accounts[i] # <<>> /\ names[i] # <<>>
          THEN <<[account |-> accounts[i], character |-> names[i]]>>
          ELSE <<>>) \o ZipLoop(accounts, names, i + 1)

ZipSummaries(accounts, names) == ZipLoop(accounts, names, 1)

\* the rest of _parse_summaries, cm being the outcome of its first loop
SummariesOf(cm) ==
    IF cm.err # "none" THEN SearchRaises(cm.err)
    ELSE SearchData(ZipSummaries(DecodeEach(DictGetList(cm.map, STR_ACCOUNT)),
                                 DecodeEach(DictGetList(cm.map, STR_NAME))))

ParseSummaries(columns) == SummariesOf(ColumnMapLoop(columns, 1, <<>>))

\* the container checks of parse_build_search_payload, root being message.get(1)
SearchContainer(root) ==
    IF root = <<>> THEN SearchData(<<>>)
    ELSE IF root[1].t # "dict" THEN SearchData(<<>>)
    ELSE ParseSummaries(DictGetList(root[1].m, NatBits(5)))

\* parse_build_search_payload after message = _parse_message(payload)
SearchMessage(message) ==
    IF message = <<>> THEN SearchData(<<>>)
    ELSE SearchContainer(DictGetList(message, NatBits(1)))

ParseBuildSearchPayload(payload) == SearchMessage(ParseMessage(payload))

-----------------------------------------------------------------------------
(* Inputs *)

RECURSIVE SeqsUpTo(_, _)
SeqsUpTo(S, n) ==
    IF n = 0 THEN {<<>>}
    ELSE LET shorter == SeqsUpTo(S, n - 1)
         IN  shorter \cup {Append(s, x) : s \in shorter, x \in S}

\* the base-128 little-endian encoding of n, the inverse the decoder is for
RECURSIVE EncodeVarint(_)
EncodeVarint(n) ==
    IF Len(n) <= 7 THEN <<BitsNat(n)>>
    ELSE <<128 + BitsNat(SubSeq(n, 1, 7))>> \o EncodeVarint(SubSeq(n, 8, Len(n)))

VarintNumbers ==
    {NatBits(k) : k \in (0..20) \cup {127, 128, 129, 255, 256, 16383, 16384}}
        \cup {ShiftLeft(<<1>>, 32), ShiftLeft(<<1, 0, 1>>, 32),
              ShiftLeft(<<1>>, 35), ShiftLeft(<<1, 1>>, 41)}

PadBytes == {0, 128, 255}

-----------------------------------------------------------------------------
(* Specification of _decode_varint *)

InitVarint ==
    /\ pc = "ready"
    /\ \E n \in VarintNumbers, before, after \in SeqsUpTo(PadBytes, MaxPad) :
          input = [buffer |-> before \o EncodeVarint(n) \o after,
                   pos |-> Len(before), n |-> n]
    /\ output = VarintErr("none", 0)

CallDecodeVarint ==
    /\ pc = "ready"
    /\ pc' = "decode_varint"
    /\ output' = DecodeVarint(input.buffer, input.pos)
    /\ UNCHANGED input

NextVarint == CallDecodeVarint

SpecVarint == InitVarint /\ [][NextVarint]_vars

-----------------------------------------------------------------------------
(* Specification of the protobuf decoder *)

\* Bytes of the exhaustive enumeration: the tags of field 1 of every wire
\* type (8..14), tags of fields 0, 2, 3 and 4, a continuation byte, and small
\* numbers that serve as values and lengths.
WireBytes == {0, 2, 8, 9, 10, 11, 12, 13, 14, 20, 24, 32, 128}

\* An encoded ladder: field 1 holds the container, whose fields 5 are the
\* columns; a column holds its name in field 1 and its rows in fields 2.
Tag(field, wire_type) == field * 8 + wire_type

LengthDelimited(field, bytes) ==
    <<Tag(field, WIRE_LENGTH_DELIMITED), Len(bytes)>> \o bytes

RECURSIVE Rows(_)
Rows(values) ==
    IF values = <<>> THEN <<>>
    ELSE LengthDelimited(2, values[1]) \o Rows(Tail(values))

Column(name, values) == LengthDelimited(5, LengthDelimited(1, name) \o Rows(values))

\* "ladder": a count in field 1, the account column, the name column;
\* "swapped": the name column first; "no_count": no field below 4 in the
\* container; "varint_column", "bytes_column": a field 5 that is no message
\* ahead of the columns.
LadderShapes == {"ladder", "swapped", "no_count", "varint_column", "bytes_column"}

Container(shape, accounts, names) ==
    (IF shape = "no_count" THEN <<>> ELSE <<Tag(1, WIRE_VARINT), 7>>)
        \o (IF shape = "varint_column" THEN <<Tag(5, WIRE_VARINT), 1>>
            ELSE IF shape = "bytes_column" THEN LengthDelimited(5, <<122, 122>>)
            ELSE <<>>)
        \o (IF shape = "swapped"
            THEN Column(STR_NAME, names) \o Column(STR_ACCOUNT, accounts)
            ELSE Column(STR_ACCOUNT, accounts) \o Column(STR_NAME, names))

LadderPayload(shape, accounts, names) ==
    LengthDelimited(1, Container(shape, accounts, names))

\* "", "a", "b"
RowStrings == {<<>>, <<97>>, <<98>>}

ProtoInput(buffer, shape, accounts, names) ==
    [buffer |-> buffer, shape |-> shape, accounts |-> accounts, names |-> names]

\* every buffer of up to MaxLen bytes over WireBytes
RawInput ==
    \E n \in 0..MaxLen : \E buffer \in [1..n -> WireBytes] :
        input = ProtoInput(buffer, "raw", <<>>, <<>>)

\* the content of one column, and of one column inside a group of field 1
ColumnInput ==
    \E lead \in {<<>>, <<Tag(1, WIRE_START_GROUP)>>},
       accounts \in SeqsUpTo(RowStrings, MaxRows) :
        input = ProtoInput(lead \o LengthDelimited(1, STR_ACCOUNT) \o Rows(accounts),
                           "column", accounts, <<>>)

LadderInput ==
    \E shape \in LadderShapes, accounts, names \in SeqsUpTo(RowStrings, MaxRows) :
        input = ProtoInput(LadderPayload(shape, accounts, names), shape, accounts, names)

InitProto ==
    /\ pc = "ready"
    /\ output = <<>>
    /\ RawInput \/ ColumnInput

CallParseMessage ==
    /\ pc = "ready"
    /\ pc' = "parse_message"
    /\ output' = ParseMessage(input.buffer)
    /\ UNCHANGED input

CallTryParseMessage ==
    /\ pc = "ready"
    /\ pc' = "try_parse_message"
    /\ output' = TryParseMessage(input.buffer)
    /\ UNCHANGED input

NextProto == CallParseMessage \/ CallTryParseMessage

SpecProto == InitProto /\ [][NextProto]_vars

-----------------------------------------------------------------------------
(* Specification of parse_build_search_payload *)

InitLadder ==
    /\ pc = "ready"
    /\ output = <<>>
    /\ RawInput \/ LadderInput

CallParseBuildSearchPayload ==
    /\ pc = "ready"
    /\ pc' = "parse_build_search_payload"
    /\ output' = ParseBuildSearchPayload(input.buffer)
    /\ UNCHANGED input

NextLadder == CallParseBuildSearchPayload

SpecLadder == InitLadder /\ [][NextLadder]_vars

-----------------------------------------------------------------------------
(* Claims about the protobuf decoder, under SpecProto *)

\* the decode of the whole input buffer, before _parse_message's except clause
TopLevel == ParseMessageInternal(input.buffer, 0, Len(input.buffer))

\* C1: parse_build_search_payload never raises, and a payload whose field 5
\* of the container holds a varint or raw bytes yields no summaries.
C1_NeverRaises ==
    pc = "parse_build_search_payload" =>
        /\ output.err = "none"
        /\ input.shape \in {"varint_column", "bytes_column"} => output.summaries = <<>>

\* what C2 says is stored for a LENGTH_DELIMITED chunk
C2_Accepted(chunk) ==
    LET r == ParseMessageInternal(chunk, 0, Len(chunk))
    IN  /\ r.err = "none"
        /\ r.pos = Len(chunk)
        /\ \E i \in 1..Len(r.fields) : BitLength(r.fields[i].key) <= 2

C2_Stored(chunk) ==
    IF C2_Accepted(chunk)
    THEN DictVal(ParseMessageInternal(chunk, 0, Len(chunk)).fields)
    ELSE BytesVal(chunk)

\* the input is one LENGTH_DELIMITED field 1 whose chunk is the rest of it
C2_OneChunk ==
    /\ Len(input.buffer) >= 2
    /\ input.buffer[1] = Tag(1, WIRE_LENGTH_DELIMITED)
    /\ input.buffer[2] = Len(input.buffer) - 2

\* C2: a LENGTH_DELIMITED chunk is stored as a nested message iff its decode
\* raises nothing, ends at len(chunk) and has a field number <= 3; otherwise
\* (the empty chunk included) the raw chunk is stored.
C2_NestedIffFullDecodeAndLowField ==
    /\ pc = "try_parse_message" =>
          /\ output.consumed = C2_Accepted(input.buffer)
          /\ output.consumed => DictVal(output.message) = C2_Stored(input.buffer)
          /\ input.buffer = <<>> => ~output.consumed
    /\ pc = "parse_message" /\ C2_OneChunk =>
          output = <<[key |-> NatBits(1),
                      vals |-> <<C2_Stored(SubSeq(input.buffer, 3, Len(input.buffer)))>>]>>

C2_Witness ==
    /\ pc = "parse_message"
    /\ C2_OneChunk
    /\ Len(input.buffer) >= 4
    /\ output[1].vals[1].t = "dict"
    /\ output[1].vals[1].m[1].key = NatBits(3)

\* the fields of buffer[pos:end] as (field number, value) pairs in the order
\* of their tags
RECURSIVE C3_MessageEvents(_, _, _)
C3_MessageEvents(buffer, pos, end) ==
    IF ~(pos < end) THEN <<>>
    ELSE LET k == DecodeVarint(buffer, pos)
             f == ShiftRight(k.value, 3)
             v == FieldValue(buffer, k.pos, LowBits(k.value, 3), f)
         IN  <<[field |-> f, value |-> v.value]>> \o C3_MessageEvents(buffer, v.pos, end)

\* the same for the fields of a group of field g that starts at pos
RECURSIVE C3_GroupEvents(_, _, _)
C3_GroupEvents(buffer, pos, g) ==
    IF ~(pos < Len(buffer)) THEN <<>>
    ELSE LET k == DecodeVarint(buffer, pos)
             f == ShiftRight(k.value, 3)
             w == LowBits(k.value, 3)
             v == ParseValue(buffer, k.pos, w, f)
         IN  IF w = WIRE_END_GROUP /\ f = g THEN <<>>
             ELSE <<[field |-> f, value |-> v.value]>> \o C3_GroupEvents(buffer, v.pos, g)

C3_ValuesOf(events, f) ==
    LET tagged == SelectSeq(events, LAMBDA e : e.field = f)
    IN  [i \in 1..Len(tagged) |-> tagged[i].value]

C3_InTagOrder(fields, events) ==
    /\ \A i, j \in 1..Len(fields) : fields[i].key = fields[j].key => i = j
    /\ DictKeys(fields) = {events[i].field : i \in 1..Len(events)}
    /\ \A i \in 1..Len(fields) : fields[i].vals = C3_ValuesOf(events, fields[i].key)

C3_StartsWithGroup ==
    /\ input.buffer # <<>>
    /\ input.buffer[1] = Tag(1, WIRE_START_GROUP)

\* C3: in a buffer that decodes without error the list stored under a field
\* number is the sequence of the values tagged with it, in tag order, at the
\* top level, in a nested message and in a group.
C3_RepeatedFieldsInTagOrder ==
    /\ pc = "parse_message" /\ TopLevel.err = "none" =>
          /\ C3_InTagOrder(output, C3_MessageEvents(input.buffer, 0, Len(input.buffer)))
          /\ C3_StartsWithGroup =>
                C3_InTagOrder(output[1].vals[1].m,
                              C3_GroupEvents(input.buffer, 1, NatBits(1)))
    /\ pc = "try_parse_message" /\ output.consumed =>
          C3_InTagOrder(output.message,
                        C3_MessageEvents(input.buffer, 0, Len(input.buffer)))

C3_Witness ==
    /\ pc = "parse_message"
    /\ input.shape = "column"
    /\ Len(input.accounts) = 2
    /\ input.accounts[1] # input.accounts[2]
    /\ Len(output) = 2
    /\ output[2].vals = <<BytesVal(input.accounts[1]), BytesVal(input.accounts[2])>>

\* one complete field (field 1, a one-byte varint) followed by a tag that is a
\* parse error at the top level (END_GROUP of field 1 or 2, wire type 6), or
\* by a varint that runs off the end of the buffer
C4_FieldThenError ==
    /\ Len(input.buffer) >= 3
    /\ input.buffer[1] = Tag(1, WIRE_VARINT)
    /\ input.buffer[2] < 128
    /\ \/ input.buffer[3] \in {Tag(1, WIRE_END_GROUP), Tag(2, WIRE_END_GROUP), Tag(1, 6)}
       \/ \A i \in 3..Len(input.buffer) : input.buffer[i] >= 128

\* C4: a parse error anywhere at the top level makes _parse_message return
\* the empty map, keeping none of the fields decoded before the error.
C4_TopLevelAllOrNothing ==
    pc = "parse_message" =>
        /\ TopLevel.err # "none" => output = <<>>
        /\ C4_FieldThenError => output = <<>>

C4_Witness ==
    /\ pc = "parse_message"
    /\ C4_FieldThenError
    /\ TopLevel.err = "ValueError"
    /\ TopLevel.fields # <<>>
    /\ output = <<>>

\* the input starts a group of field 1 and holds no END_GROUP tag of field 1
C5_GroupNeverClosed ==
    /\ C3_StartsWithGroup
    /\ \A i \in 1..Len(input.buffer) : input.buffer[i] # Tag(1, WIRE_END_GROUP)

\* C5: a group whose END_GROUP tag of the same field number is never read is
\* a parse error: the top-level result is the empty map and a nested probe
\* falls back to raw bytes.
C5_UnclosedGroupIsParseError ==
    /\ pc = "parse_message" /\ C5_GroupNeverClosed => output = <<>>
    /\ pc = "try_parse_message" /\ C5_GroupNeverClosed => ~output.consumed

RECURSIVE C7_KeysPositiveIn(_)
C7_KeysPositiveIn(m) ==
    \A i \in 1..Len(m) :
        /\ m[i].key # <<>>
        /\ \A j \in 1..Len(m[i].vals) :
              m[i].vals[j].t = "dict" => C7_KeysPositiveIn(m[i].vals[j].m)

\* C7: every key of every decoded message (top level, nested, group) is a
\* positive integer.
C7_FieldNumbersPositive ==
    pc = "parse_message" => C7_KeysPositiveIn(output)

\* rows i < min(m, k) whose account and character are both non-empty
C8_Expected(accounts, names) ==
    LET n == Min(Len(accounts), Len(names))
        kept == SelectSeq([i \in 1..n |-> i],
                          LAMBDA i : accounts[i] # <<>> /\ names[i] # <<>>)
    IN  [j \in 1..Len(kept) |->
            [account |-> accounts[kept[j]], character |-> names[kept[j]]]]

\* C8: the summaries are the rows paired by position, in order, up to the
\* shorter column, without the rows that have an empty account or character.
C8_RowsPairedByPosition ==
    pc = "parse_build_search_payload" /\ input.shape \in {"ladder", "swapped"} =>
        /\ output = SearchData(C8_Expected(input.accounts, input.names))
        /\ Len(output.summaries) <= Min(Len(input.accounts), Len(input.names))
        /\ \A i \in 1..Len(output.summaries) :
              output.summaries[i].account # <<>> /\ output.summaries[i].character # <<>>

C8_Witness ==
    /\ pc = "parse_build_search_payload"
    /\ input.shape = "ladder"
    /\ input.accounts = <<<<>>, <<97>>>>
    /\ input.names = <<<<97>>, <<98>>>>
    /\ output.summaries = <<[account |-> <<97>>, character |-> <<98>>]>>

-----------------------------------------------------------------------------
(* Claims about _decode_varint, under SpecVarint *)

\* C6: decoding at position p the base-128 little-endian encoding of n placed
\* at p returns n and p plus the number of encoded bytes, and reads no byte
\* after the first one whose high bit is clear (the bytes after it may be cut
\* off without changing the result).
C6_VarintRoundTrip ==
    pc = "decode_varint" =>
        LET stop == input.pos + Len(EncodeVarint(input.n))
        IN  /\ output = VarintOk(input.n, stop)
            /\ DecodeVarint(SubSeq(input.buffer, 1, stop), input.pos) = output

C6_Witness ==
    /\ pc = "decode_varint"
    /\ input.n = ShiftLeft(<<1>>, 35)
    /\ input.pos > 0
    /\ Len(input.buffer) > input.pos + 6
    /\ input.buffer[input.pos + 7] >= 128
    /\ output.value = input.n
    /\ output.pos = input.pos + 6

-----------------------------------------------------------------------------
(* Specification of _decode_string on an integer *)

\* NUL, the ends of the code-point range (bytes FF FF 10 and 00 00 11 are
\* 0x10FFFF and 0x110000), 'A', the bytes of U+00E9 and an invalid byte
StringBytes == {0, 16, 17, 65, 169, 195, 255}

RECURSIVE TrimHighZeros(_)
TrimHighZeros(bytes) ==
    IF bytes # <<>> /\ bytes[Len(bytes)] = 0
    THEN TrimHighZeros(SubSeq(bytes, 1, Len(bytes) - 1))
    ELSE bytes

\* the argument is the integer whose little-endian bytes are given; bytes
\* records them without the zero bytes at the most significant end
InitString ==
    /\ pc = "ready"
    /\ output = <<>>
    /\ \E n \in 0..MaxIntBytes : \E bytes \in [1..n -> StringBytes] :
          input = [value |-> IntVal(FromBytesLittle(bytes)),
                   bytes |-> TrimHighZeros(bytes)]

CallDecodeString ==
    /\ pc = "ready"
    /\ "value" \in DOMAIN input
    /\ pc' = "decode_string"
    /\ output' = DecodeString(input.value)
    /\ UNCHANGED input

NextString == CallDecodeString

SpecString == InitString /\ [][NextString]_vars

-----------------------------------------------------------------------------
(* Claims about _decode_string, under SpecString *)

AllNul(s) == \A i \in 1..Len(s) : s[i] = 0

\* the text of the integer: its bytes, of which there are exactly
\* max(1, ceil(bit_length / 8)), decoded as UTF-8 with replacement
C9_Length == Max(1, (BitLength(input.value.n) + 7) \div 8)

C9_Bytes == IF input.bytes = <<>> THEN <<0>> ELSE input.bytes

C9_Text == Utf8Decode(C9_Bytes, "replace").text

C9_IsCodePoint == IntLeq(input.value.n, MAX_CODE_POINT)

\* s without the NULs at its end, the NULs at its start kept
C9_WithoutTrailingNuls(s, t) ==
    \E j \in 0..Len(s) :
        /\ t = SubSeq(s, 1, j)
        /\ AllNul(SubSeq(s, j + 1, Len(s)))
        /\ j > 0 => s[j] # 0

\* s without the NULs at its start and at its end, the NULs between kept
C9_WithoutOuterNuls(s, t) ==
    \E i \in 1..Len(s) + 1 : \E j \in i - 1..Len(s) :
        /\ t = SubSeq(s, i, j)
        /\ AllNul(SubSeq(s, 1, i - 1))
        /\ AllNul(SubSeq(s, j + 1, Len(s)))
        /\ j >= i => s[i] # 0 /\ s[j] # 0

\* C9 as stated: an integer in 0..0x10FFFF decodes to the one character with
\* that code point; a larger one decodes to the UTF-8 text (invalid sequences
\* replaced) of its max(1, ceil(bit_length / 8)) little-endian bytes, from
\* which only the trailing NULs are removed, the leading and interior ones
\* kept.
C9_OnlyTrailingNulsRemoved ==
    pc = "decode_string" =>
        IF C9_IsCodePoint THEN output = <<BitsNat(input.value.n)>>
        ELSE /\ Len(C9_Bytes) = C9_Length
             /\ FromBytesLittle(C9_Bytes) = input.value.n
             /\ C9_WithoutTrailingNuls(C9_Text, output)

\* C9 as the code has it: an integer in 0..0x10FFFF decodes to the one
\* character with that code point; a larger one decodes to the UTF-8 text
\* (invalid sequences replaced) of its max(1, ceil(bit_length / 8))
\* little-endian bytes, from which the leading and the trailing NULs are
\* removed and the interior ones kept.
C9_OuterNulsRemoved ==
    pc = "decode_string" =>
        IF C9_IsCodePoint THEN output = <<BitsNat(input.value.n)>>
        ELSE /\ Len(C9_Bytes) = C9_Length
             /\ FromBytesLittle(C9_Bytes) = input.value.n
             /\ C9_WithoutOuterNuls(C9_Text, output)

\* bytes 00 41 00 41: a leading NUL is removed, the interior one is kept
C9_Witness ==
    /\ pc = "decode_string"
    /\ ~C9_IsCodePoint
    /\ C9_Text = <<0, 65, 0, 65>>
    /\ output = <<65, 0, 65>>

-----------------------------------------------------------------------------
(* str.split, base64.b64decode, base64.urlsafe_b64decode *)

\* the characters str.isspace() holds of, which str.split() splits on
PyWhitespace ==
    (9..13) \cup (28..32) \cup {133, 160, 5760} \cup (8192..8202)
            \cup {8232, 8233, 8239, 8287, 12288}

RECURSIVE StripEnds(_)
StripEnds(s) ==
    IF s # <<>> /\ s[1] \in PyWhitespace THEN StripEnds(Tail(s))
    ELSE IF s # <<>> /\ s[Len(s)] \in PyWhitespace
    THEN StripEnds(SubSeq(s, 1, Len(s) - 1))
    ELSE s

\* "".join(import_code.split())
RemoveWhitespace(s) == SelectSeq(s, LAMBDA c : c \notin PyWhitespace)

\* "A..Za..z0..9" and the two characters of the variant
Base64Alphabet(c62, c63) ==
    [i \in 1..64 |-> IF i <= 26 THEN 64 + i
                     ELSE IF i <= 52 THEN 70 + i
                     ELSE IF i <= 62 THEN i - 5
                     ELSE IF i = 63 THEN c62 ELSE c63]

\* "+/" of the standard alphabet, "-_" of the URL-safe one, "="
PLUS == 43
SLASH == 47
MINUS == 45
UNDERSCORE == 95
BASE64_PAD == 61

StandardAlphabet == Base64Alphabet(PLUS, SLASH)

UrlSafeAlphabet == Base64Alphabet(MINUS, UNDERSCORE)

\* valid_chars
ValidChars ==
    {StandardAlphabet[i] : i \in 1..64} \cup {BASE64_PAD, MINUS, UNDERSCORE}

\* table_a2b_base64 of binascii: the value of a character of the standard
\* alphabet
B64Value(c) ==
    IF c = PLUS THEN 62
    ELSE IF c = SLASH THEN 63
    ELSE IF c >= 97 THEN c - 71
    ELSE IF c >= 65 THEN c - 65
    ELSE c + 4

IsB64Char(c) == \E i \in 1..64 : StandardAlphabet[i] = c

A2bOk(data) == [err |-> "none", data |-> data]

A2bErr(message) == [err |-> "binascii.Error", data |-> <<>>, message |-> message]

RECURSIVE A2bLoop(_, _, _, _, _, _)

\* a character of the alphabet, of value v, at quad_pos
A2bData(s, i, quad_pos, leftchar, out, v) ==
    IF quad_pos = 0 THEN A2bLoop(s, i + 1, 1, v, 0, out)
    ELSE IF quad_pos = 1
    THEN A2bLoop(s, i + 1, 2, v % 16, 0, Append(out, leftchar * 4 + v \div 16))
    ELSE IF quad_pos = 2
    THEN A2bLoop(s, i + 1, 3, v % 4, 0, Append(out, leftchar * 16 + v \div 4))
    ELSE A2bLoop(s, i + 1, 0, 0, 0, Append(out, leftchar * 64 + v))

\* binascii.a2b_base64 without strict_mode: a pad completing a quad ends the
\* decoding, other pads and the characters outside the alphabet are skipped
A2bLoop(s, i, quad_pos, leftchar, pads, out) ==
    IF i > Len(s)
    THEN IF quad_pos = 0 THEN A2bOk(out)
         ELSE IF quad_pos = 1 THEN A2bErr("Invalid base64-encoded string")
         ELSE A2bErr("Incorrect padding")
    ELSE IF s[i] = BASE64_PAD
    THEN IF quad_pos >= 2 /\ quad_pos + pads + 1 >= 4 THEN A2bOk(out)
         ELSE A2bLoop(s, i + 1, quad_pos, leftchar,
                      IF quad_pos >= 2 THEN pads + 1 ELSE pads, out)
    ELSE IF ~IsB64Char(s[i]) THEN A2bLoop(s, i + 1, quad_pos, leftchar, pads, out)
    ELSE A2bData(s, i, quad_pos, leftchar, out, B64Value(s[i]))

B64DecodePadded(s) == A2bLoop(s \o <<BASE64_PAD, BASE64_PAD>>, 1, 0, 0, 0, <<>>)

\* base64.b64decode(s)
B64Decode(s) == A2bLoop(s, 1, 0, 0, 0, <<>>)

UrlSafeNoTranslate(s) == s

\* s.translate(_urlsafe_decode_translation)
UrlSafeTranslate(s) ==
    [i \in 1..Len(s) |-> IF s[i] = MINUS THEN PLUS
                         ELSE IF s[i] = UNDERSCORE THEN SLASH ELSE s[i]]

\* base64.urlsafe_b64decode(s)
UrlSafeB64Decode(s) == B64Decode(UrlSafeTranslate(s))

-----------------------------------------------------------------------------
(* zlib.decompress: a zlib stream of stored and fixed-Huffman deflate blocks *)

ZlibOk(data) == [err |-> "none", data |-> data]

\* zlib.error, message being the text after "while decompressing data"
ZlibErr(message) == [err |-> message, data |-> <<>>]

TRUNCATED == "incomplete or truncated stream"

\* the bits of the stream in the order inflate consumes them: byte by byte,
\* least significant bit first
BitsOfBytes(bytes) ==
    [i \in 1..8 * Len(bytes) |-> (bytes[(i - 1) \div 8 + 1] \div 2^((i - 1) % 8)) % 2]

Available(bits, pos, n) == pos + n <= Len(bits)

\* n bits after pos as a number, least significant first (header fields and
\* extra bits)
RECURSIVE BitsValue(_, _, _)
BitsValue(bits, pos, n) ==
    IF n = 0 THEN 0 ELSE bits[pos + 1] + 2 * BitsValue(bits, pos + 1, n - 1)

\* n bits after pos as a Huffman code, most significant first
RECURSIVE CodeValue(_, _, _)
CodeValue(bits, pos, n) ==
    IF n = 0 THEN 0
    ELSE bits[pos + 1] * 2^(n - 1) + CodeValue(bits, pos + 1, n - 1)

ByteAlign(pos) == ((pos + 7) \div 8) * 8

BytesAt(bits, pos, n) == [j \in 1..n |-> BitsValue(bits, pos + 8 * (j - 1), 8)]

\* largest prime below 2^16, the modulus of Adler-32
ADLER_BASE == 65521

\* adler32(data) as the four bytes that end a zlib stream (big-endian)
RECURSIVE Adler32Loop(_, _, _, _)
Adler32Loop(data, i, a, b) ==
    IF i > Len(data) THEN <<b \div 256, b % 256, a \div 256, a % 256>>
    ELSE Adler32Loop(data, i + 1, (a + data[i]) % ADLER_BASE,
                     (b + a + data[i]) % ADLER_BASE)

Adler32(data) == Adler32Loop(data, 1, 1, 0)

\* base length and extra bits of the length symbols 257..285
LengthBase ==
    <<3, 4, 5, 6, 7, 8, 9, 10, 11, 13, 15, 17, 19, 23, 27, 31, 35, 43, 51, 59,
      67, 83, 99, 115, 131, 163, 195, 227, 258>>

LengthExtra ==
    <<0, 0, 0, 0, 0, 0, 0, 0, 1, 1, 1, 1, 2, 2, 2, 2, 3, 3, 3, 3,
      4, 4, 4, 4, 5, 5, 5, 5, 0>>

\* base distance and extra bits of the distance codes 0..29
DistBase ==
    <<1, 2, 3, 4, 5, 7, 9, 13, 17, 25, 33, 49, 65, 97, 129, 193, 257, 385,
      513, 769, 1025, 1537, 2049, 3073, 4097, 6145, 8193, 12289, 16385, 24577>>

DistExtra ==
    <<0, 0, 0, 0, 1, 1, 2, 2, 3, 3, 4, 4, 5, 5, 6, 6, 7, 7,
      8, 8, 9, 9, 10, 10, 11, 11, 12, 12, 13, 13>>

NoSymbol == [n |-> 0, sym |-> 0]

\* the next symbol of the fixed literal/length code and the length n of its
\* code: 7 bits for 256..279, 8 bits for 0..143 and 280..287, 9 bits for
\* 144..255; n = 0 when the stream ends inside the code
FixedSymbol(bits, pos) ==
    IF ~Available(bits, pos, 7) THEN NoSymbol
    ELSE IF CodeValue(bits, pos, 7) <= 23
    THEN [n |-> 7, sym |-> 256 + CodeValue(bits, pos, 7)]
    ELSE IF ~Available(bits, pos, 8) THEN NoSymbol
    ELSE IF CodeValue(bits, pos, 8) <= 191
    THEN [n |-> 8, sym |-> CodeValue(bits, pos, 8) - 48]
    ELSE IF CodeValue(bits, pos, 8) <= 199
    THEN [n |-> 8, sym |-> 280 + CodeValue(bits, pos, 8) - 192]
    ELSE IF ~Available(bits, pos, 9) THEN NoSymbol
    ELSE [n |-> 9, sym |-> 144 + CodeValue(bits, pos, 9) - 400]

\* out followed by length bytes copied from dist bytes back, one at a time
RECURSIVE CopyMatch(_, _, _)
CopyMatch(out, dist, length) ==
    IF length = 0 THEN out
    ELSE CopyMatch(Append(out, out[Len(out) - dist + 1]), dist, length - 1)

RECURSIVE InflateBlock(_, _, _)
RECURSIVE InflateFixed(_, _, _, _)

\* after the last block: the Adler-32 of the output at the next byte
\* boundary; what follows it is ignored
InflateCheck(bits, pos, out) ==
    IF ~Available(bits, pos, 32) THEN ZlibErr(TRUNCATED)
    ELSE IF BytesAt(bits, pos, 4) # Adler32(out) THEN ZlibErr("incorrect data check")
    ELSE ZlibOk(out)

AfterBlock(bits, pos, out, bfinal) ==
    IF bfinal = 1 THEN InflateCheck(bits, ByteAlign(pos), out)
    ELSE InflateBlock(bits, pos, out)

\* the bytes of a stored block whose LEN is len
StoredData(bits, pos, out, bfinal, len) ==
    IF ~Available(bits, pos, 8 * len) THEN ZlibErr(TRUNCATED)
    ELSE AfterBlock(bits, pos + 8 * len, out \o BytesAt(bits, pos, len), bfinal)

\* a stored block: LEN and its complement NLEN at a byte boundary
InflateStored(bits, pos, out, bfinal) ==
    IF ~Available(bits, pos, 32) THEN ZlibErr(TRUNCATED)
    ELSE IF BitsValue(bits, pos, 16) # 65535 - BitsValue(bits, pos + 16, 16)
    THEN ZlibErr("invalid stored block lengths")
    ELSE StoredData(bits, pos + 32, out, bfinal, BitsValue(bits, pos, 16))

\* the extra bits of distance code dcode, and the copy
InflateDistExtra(bits, pos, out, bfinal, length, dcode) ==
    IF dcode > 29 THEN ZlibErr("invalid distance code")
    ELSE IF ~Available(bits, pos, DistExtra[dcode + 1]) THEN ZlibErr(TRUNCATED)
    ELSE IF DistBase[dcode + 1] + BitsValue(bits, pos, DistExtra[dcode + 1]) > Len(out)
    THEN ZlibErr("invalid distance too far back")
    ELSE InflateFixed(bits, pos + DistExtra[dcode + 1],
                      CopyMatch(out, DistBase[dcode + 1]
                                       + BitsValue(bits, pos, DistExtra[dcode + 1]),
                                length),
                      bfinal)

\* the distance of a match of the given length: a 5-bit code
InflateDist(bits, pos, out, bfinal, length) ==
    IF ~Available(bits, pos, 5) THEN ZlibErr(TRUNCATED)
    ELSE InflateDistExtra(bits, pos + 5, out, bfinal, length, CodeValue(bits, pos, 5))

\* the extra bits of length symbol 257 + k - 1
InflateLength(bits, pos, out, bfinal, k) ==
    IF ~Available(bits, pos, LengthExtra[k]) THEN ZlibErr(TRUNCATED)
    ELSE InflateDist(bits, pos + LengthExtra[k], out, bfinal,
                     LengthBase[k] + BitsValue(bits, pos, LengthExtra[k]))

\* one symbol c of a fixed-Huffman block
InflateSymbol(bits, pos, out, bfinal, c) ==
    IF c.n = 0 THEN ZlibErr(TRUNCATED)
    ELSE IF c.sym < 256 THEN InflateFixed(bits, pos + c.n, Append(out, c.sym), bfinal)
    ELSE IF c.sym = 256 THEN AfterBlock(bits, pos + c.n, out, bfinal)
    ELSE IF c.sym > 285 THEN ZlibErr("invalid literal/length code")
    ELSE InflateLength(bits, pos + c.n, out, bfinal, c.sym - 256)

InflateFixed(bits, pos, out, bfinal) ==
    InflateSymbol(bits, pos, out, bfinal, FixedSymbol(bits, pos))

\* the model stops at a block with dynamic Huffman codes (BTYPE 2); the
\* streams of the specifications below do not contain one
DYNAMIC_BLOCK == "dynamic Huffman block"

InflateType(bits, pos, out, bfinal, btype) ==
    IF btype = 0 THEN InflateStored(bits, ByteAlign(pos), out, bfinal)
    ELSE IF btype = 1 THEN InflateFixed(bits, pos, out, bfinal)
    ELSE IF btype = 2 THEN ZlibErr(DYNAMIC_BLOCK)
    ELSE ZlibErr("invalid block type")

\* a block: BFINAL, BTYPE and the data
InflateBlock(bits, pos, out) ==
    IF ~Available(bits, pos, 3) THEN ZlibErr(TRUNCATED)
    ELSE InflateType(bits, pos + 3, out, bits[pos + 1], BitsValue(bits, pos + 1, 2))

\* the two bytes CMF and FLG that start a zlib stream, then the blocks; a
\* preset dictionary (FDICT) makes inflate return Z_NEED_DICT once its
\* four-byte id is read
InflateStream(data, bits) ==
    IF Len(data) < 2 THEN ZlibErr(TRUNCATED)
    ELSE IF (data[1] * 256 + data[2]) % 31 # 0 THEN ZlibErr("incorrect header check")
    ELSE IF data[1] % 16 # 8 THEN ZlibErr("unknown compression method")
    ELSE IF data[1] \div 16 > 7 THEN ZlibErr("invalid window size")
    ELSE IF (data[2] \div 32) % 2 = 1
    THEN IF Len(data) < 6 THEN ZlibErr(TRUNCATED) ELSE ZlibErr("Error 2")
    ELSE InflateBlock(bits, 16, <<>>)

\* zlib.decompress(data)
ZlibDecompress(data) == InflateStream(data, BitsOfBytes(data))

-----------------------------------------------------------------------------
(* decode_pob_code_to_xml *)

\* the lengths of the cleaned code below which a decompression error is
\* reported as "too short" and as "may be incomplete"
TOO_SHORT_BELOW == 1000
INCOMPLETE_BELOW == 5000

\* the zlib errors whose text contains "invalid" or "incorrect"
InvalidOrIncorrect ==
    {"incorrect header check", "invalid window size", "invalid block type",
     "invalid stored block lengths", "invalid literal/length code",
     "invalid distance code", "invalid distance too far back",
     "incorrect data check"}

PobOk(xml) == [err |-> "none", message |-> "", xml |-> xml]

\* raise ValueError(message)
PobErr(message) == [err |-> "ValueError", message |-> message, xml |-> <<>>]

DecompressErrorInclusive(cleaned_code, e) ==
    IF Len(cleaned_code) <= TOO_SHORT_BELOW THEN PobErr("too short")
    ELSE IF Len(cleaned_code) <= INCOMPLETE_BELOW THEN PobErr("may be incomplete")
    ELSE IF e \in InvalidOrIncorrect THEN PobErr("corrupted or incomplete")
    ELSE PobErr("Failed to decompress PoB code")

\* except zlib.error as e
DecompressError(cleaned_code, e) ==
    IF Len(cleaned_code) < TOO_SHORT_BELOW THEN PobErr("too short")
    ELSE IF Len(cleaned_code) < INCOMPLETE_BELOW THEN PobErr("may be incomplete")
    ELSE IF e \in InvalidOrIncorrect THEN PobErr("corrupted or incomplete")
    ELSE PobErr("Failed to decompress PoB code")

\* xml_bytes.decode("utf-8"), u being its outcome
DecodeXmlBytes(u) ==
    IF u.err # "none" THEN PobErr("decompressed to invalid UTF-8") ELSE PobOk(u.text)

\* zlib.decompress(compressed), z being its outcome
Decompressed(cleaned_code, z) ==
    IF z.err # "none" THEN DecompressError(cleaned_code, z.err)
    ELSE DecodeXmlBytes(Utf8Decode(z.data, "strict"))

\* the base64 decoding, d being its outcome
Decoded(cleaned_code, d) ==
    IF d.err # "none" THEN PobErr("Invalid base64")
    ELSE Decompressed(cleaned_code, ZlibDecompress(d.data))

DecodeCleanedUnvalidated(cleaned_code) ==
    IF cleaned_code = <<>> THEN PobErr("empty after removing whitespace")
    ELSE IF \E i \in 1..Len(cleaned_code) : cleaned_code[i] \in {MINUS, UNDERSCORE}
    THEN Decoded(cleaned_code, UrlSafeB64Decode(cleaned_code))
    ELSE Decoded(cleaned_code, B64Decode(cleaned_code))

\* the checks of the cleaned code and the choice of the base64 variant
DecodeCleaned(cleaned_code) ==
    IF cleaned_code = <<>> THEN PobErr("empty after removing whitespace")
    ELSE IF \E i \in 1..Len(cleaned_code) : cleaned_code[i] \notin ValidChars
    THEN PobErr("invalid characters")
    ELSE IF \E i \in 1..Len(cleaned_code) : cleaned_code[i] \in {MINUS, UNDERSCORE}
    THEN Decoded(cleaned_code, UrlSafeB64Decode(cleaned_code))
    ELSE Decoded(cleaned_code, B64Decode(cleaned_code))

DecodePobCodeToXml(import_code) == DecodeCleaned(RemoveWhitespace(import_code))

-----------------------------------------------------------------------------
(* Import codes: str.encode, zlib.compress, base64.b64encode *)

\* str.encode("utf-8") of one code point (not a surrogate)
Utf8EncodeChar(c) ==
    IF c < 128 THEN <<c>>
    ELSE IF c < 2048 THEN <<192 + c \div 64, 128 + (c % 64)>>
    ELSE IF c < 65536
    THEN <<224 + c \div 4096, 128 + ((c \div 64) % 64), 128 + (c % 64)>>
    ELSE <<240 + c \div 262144, 128 + ((c \div 4096) % 64),
           128 + ((c \div 64) % 64), 128 + (c % 64)>>

RECURSIVE Utf8Encode(_)
Utf8Encode(text) ==
    IF text = <<>> THEN <<>> ELSE Utf8EncodeChar(text[1]) \o Utf8Encode(Tail(text))

\* the n bits of a Huffman code, most significant first
CodeBits(v, n) == [i \in 1..n |-> (v \div 2^(n - i)) % 2]

\* the fixed-Huffman code of a literal byte
LiteralBits(b) == IF b < 144 THEN CodeBits(48 + b, 8) ELSE CodeBits(400 + b - 144, 9)

RECURSIVE LiteralsBits(_)
LiteralsBits(data) ==
    IF data = <<>> THEN <<>> ELSE LiteralBits(data[1]) \o LiteralsBits(Tail(data))

\* bits packed into bytes, least significant bit first, the last byte
\* filled with zeros
PackBits(bits) ==
    [j \in 1..(Len(bits) + 7) \div 8 |->
        BitsValue(bits \o <<0, 0, 0, 0, 0, 0, 0>>, 8 * (j - 1), 8)]

\* zlib.compress(data) for data too short to hold a match: the header 78 9C,
\* one final fixed-Huffman block of literals, the end-of-block code, Adler-32
ZlibCompress(data) ==
    <<120, 156>>
        \o PackBits(<<1, 1, 0>> \o LiteralsBits(data) \o CodeBits(0, 7))
        \o Adler32(data)

\* base64 of one group of one to three bytes, padded with "="
B64Group(g, alphabet) ==
    IF Len(g) = 1
    THEN <<alphabet[g[1] \div 4 + 1], alphabet[(g[1] % 4) * 16 + 1],
           BASE64_PAD, BASE64_PAD>>
    ELSE IF Len(g) = 2
    THEN <<alphabet[g[1] \div 4 + 1], alphabet[(g[1] % 4) * 16 + g[2] \div 16 + 1],
           alphabet[(g[2] % 16) * 4 + 1], BASE64_PAD>>
    ELSE <<alphabet[g[1] \div 4 + 1], alphabet[(g[1] % 4) * 16 + g[2] \div 16 + 1],
           alphabet[(g[2] % 16) * 4 + g[3] \div 64 + 1], alphabet[(g[3] % 64) + 1]>>

\* base64.b64encode and base64.urlsafe_b64encode, by the alphabet
RECURSIVE B64Encode(_, _)
B64Encode(data, alphabet) ==
    IF data = <<>> THEN <<>>
    ELSE IF Len(data) <= 3 THEN B64Group(data, alphabet)
    ELSE B64Group(SubSeq(data, 1, 3), alphabet)
             \o B64Encode(SubSeq(data, 4, Len(data)), alphabet)

\* the import code of a text
ImportCode(text, alphabet) == B64Encode(ZlibCompress(Utf8Encode(text)), alphabet)

\* s with the characters of run inserted after its first p characters
InsertAt(s, p, run) == SubSeq(s, 1, p) \o run \o SubSeq(s, p + 1, Len(s))

-----------------------------------------------------------------------------
(* Specification of decode_pob_code_to_xml on import codes *)

\* ">" (its code holds "/"), U+00E9 (two bytes, its code ends in "==") and
\* U+0913 (three bytes, its code holds "+" and ends in "=")
TextChars == {62, 233, 2323}

\* a space, a tab, a newline, and the three together
WhitespaceRuns == {<<32>>, <<9>>, <<10>>, <<32, 9, 10>>}

\* s after the insertions of the runs at the positions ps, in turn
RECURSIVE Insertions(_, _, _)
Insertions(s, ps, runs) ==
    IF ps = <<>> THEN s
    ELSE Insertions(InsertAt(s, ps[1], runs[1]), Tail(ps), Tail(runs))

\* the argument is the import code of a text in one of the two alphabets,
\* with whitespace inserted at up to MaxGaps places, anywhere
InitPobCode ==
    /\ pc = "ready"
    /\ output = <<>>
    /\ \E n \in 0..MaxText : \E text \in [1..n -> TextChars] :
       \E alphabet \in {StandardAlphabet, UrlSafeAlphabet} :
       \E k \in 0..MaxGaps : \E runs \in [1..k -> WhitespaceRuns] :
       \E ps \in [1..k -> 0..Len(ImportCode(text, alphabet))] :
          input = [text |-> text,
                   clean |-> ImportCode(text, alphabet),
                   code |-> Insertions(ImportCode(text, alphabet), ps, runs)]

CallDecodePobCodeToXml ==
    /\ pc = "ready"
    /\ "code" \in DOMAIN input
    /\ pc' = "decode_pob_code_to_xml"
    /\ output' = DecodePobCodeToXml(input.code)
    /\ UNCHANGED input

NextPobCode == CallDecodePobCodeToXml

SpecPobCode == InitPobCode /\ [][NextPobCode]_vars

-----------------------------------------------------------------------------
(* Claims about decode_pob_code_to_xml, under SpecPobCode *)

\* C10: the import code of every UTF-8 text, in the standard and in the
\* URL-safe base64 alphabet, decodes to exactly that text, also with
\* whitespace (spaces, tabs, newlines) inserted at any positions of the code.
C10_RoundTrip ==
    pc = "decode_pob_code_to_xml" => output = PobOk(input.text)

\* a code of the URL-safe alphabet holding "-" with three kinds of
\* whitespace inside it and none at its ends, of a text with a multi-byte
\* character
C10_Witness ==
    /\ pc = "decode_pob_code_to_xml"
    /\ \E i \in 1..Len(input.code) : input.code[i] = MINUS
    /\ \E i \in 2..Len(input.code) - 1 : input.code[i] = 10
    /\ \E i \in 2..Len(input.code) - 1 : input.code[i] = 9
    /\ input.code[1] \notin PyWhitespace
    /\ input.code[Len(input.code)] \notin PyWhitespace
    /\ \E i \in 1..Len(input.text) : input.text[i] > 127
    /\ output.err = "none"
    /\ output.xml = input.text

-----------------------------------------------------------------------------
(* Specification of decode_pob_code_to_xml on codes that fail *)

\* "a", "e", "=", "-", "/", "!" and U+00E9
CodeChars == {97, 101, 61, 45, 47, 33, 233}

\* byte strings that are not UTF-8, and one that is
BinaryDatas == {<<255>>, <<195>>, <<195, 40>>, <<65, 128>>, <<65>>}

\* "ab==", "abcdef==", "//8=" and "eJwHAA==": base64 decoding ends at the
\* padding; the bytes are 69 (a truncated stream), 69 B7 1D 79 (unknown
\* compression method), FF FF (incorrect header check) and 78 9C 07 00
\* (invalid block type)
LongPrefixes ==
    {<<97, 98, 61, 61>>, <<97, 98, 99, 100, 101, 102, 61, 61>>,
     <<47, 47, 56, 61>>, <<101, 74, 119, 72, 65, 65, 61, 61>>}

\* the lengths around the two thresholds of the decompression message
CodeLengths ==
    {TOO_SHORT_BELOW - 1, TOO_SHORT_BELOW, INCOMPLETE_BELOW - 1, INCOMPLETE_BELOW}

\* prefix followed by "A"s up to length n
LongCode(prefix, n) == prefix \o [i \in 1..n - Len(prefix) |-> 65]

\* clean with a newline after its first w characters, or as it is
WithNewline(clean, w) ==
    IF w > Len(clean) THEN clean ELSE InsertAt(clean, w, <<10>>)

\* every code of up to MaxCode characters over CodeChars
ShortCodeInput ==
    \E n \in 0..MaxCode : \E clean \in [1..n -> CodeChars] : \E w \in 0..n + 1 :
        input = [kind |-> "short", clean |-> clean, code |-> WithNewline(clean, w)]

\* the import codes of byte strings
BinaryCodeInput ==
    \E data \in BinaryDatas : \E alphabet \in {StandardAlphabet, UrlSafeAlphabet} :
    \E w \in {0, 5, 100} :
        input = [kind |-> "binary",
                 clean |-> B64Encode(ZlibCompress(data), alphabet),
                 code |-> WithNewline(B64Encode(ZlibCompress(data), alphabet), w)]

\* codes as long as the thresholds that are not zlib data
LongCodeInput ==
    \E prefix \in LongPrefixes : \E n \in CodeLengths :
    \E w \in {0, 2, Len(prefix), n, n + 1} :
        input = [kind |-> "long",
                 clean |-> LongCode(prefix, n),
                 code |-> WithNewline(LongCode(prefix, n), w)]

InitPobError ==
    /\ pc = "ready"
    /\ output = <<>>
    /\ \/ ShortCodeInput
       \/ BinaryCodeInput
       \/ LongCodeInput

NextPobError == CallDecodePobCodeToXml

SpecPobError == InitPobError /\ [][NextPobError]_vars

-----------------------------------------------------------------------------
(* Claims about the errors of decode_pob_code_to_xml, under SpecPobError *)

\* A-Z a-z 0-9 + / = - _
C11_Allowed(c) ==
    c \in (65..90) \cup (97..122) \cup (48..57) \cup {43, 47, 61, 45, 95}

C11_Empty == input.clean = <<>>

C11_InvalidChar == \E i \in 1..Len(input.clean) : ~C11_Allowed(input.clean[i])

\* what the base64 stage, the zlib stage and the UTF-8 stage make of the
\* cleaned code
C11_Base64 ==
    IF \E i \in 1..Len(input.clean) : input.clean[i] \in {45, 95}
    THEN UrlSafeB64Decode(input.clean)
    ELSE B64Decode(input.clean)

C11_Zlib == ZlibDecompress(C11_Base64.data)

C11_Utf8 == Utf8Decode(C11_Zlib.data, "strict")

C11_TierMessages ==
    {"too short", "may be incomplete", "corrupted or incomplete",
     "Failed to decompress PoB code"}

C11_Raises(messages) == output.err = "ValueError" /\ output.message \in messages

\* C11: the decoder reports the earliest failing stage, in the order empty
\* code, invalid characters, base64, zlib (a length-tiered message), UTF-8;
\* a later stage's message is never produced for an input that fails an
\* earlier stage, and every failure is a ValueError.
C11_EarliestStageReported ==
    pc = "decode_pob_code_to_xml" =>
        IF C11_Empty THEN C11_Raises({"empty after removing whitespace"})
        ELSE IF C11_InvalidChar THEN C11_Raises({"invalid characters"})
        ELSE IF C11_Base64.err # "none" THEN C11_Raises({"Invalid base64"})
        ELSE IF C11_Zlib.err # "none" THEN C11_Raises(C11_TierMessages)
        ELSE IF C11_Utf8.err # "none" THEN C11_Raises({"decompressed to invalid UTF-8"})
        ELSE output.err = "none"

\* the code "a!": an invalid character, and not base64 either
C11_Witness ==
    /\ pc = "decode_pob_code_to_xml"
    /\ input.clean = <<97, 33>>
    /\ B64Decode(input.clean).err # "none"
    /\ output = PobErr("invalid characters")

C12_ZlibFails ==
    /\ ~C11_Empty
    /\ ~C11_InvalidChar
    /\ C11_Base64.err = "none"
    /\ C11_Zlib.err # "none"

\* C12: on a zlib error the message depends only on the length L of the
\* cleaned code and on the error text: "too short" for L < 1000, "may be
\* incomplete" for 1000 <= L < 5000, "corrupted or incomplete" for L >= 5000
\* and a text holding "invalid" or "incorrect", the generic message
\* otherwise; whitespace in the raw code does not change it.
C12_TierByCleanedLength ==
    pc = "decode_pob_code_to_xml" /\ C12_ZlibFails =>
        /\ output.err = "ValueError"
        /\ output.message =
              IF Len(input.clean) < 1000 THEN "too short"
              ELSE IF Len(input.clean) < 5000 THEN "may be incomplete"
              ELSE IF C11_Zlib.err \in InvalidOrIncorrect THEN "corrupted or incomplete"
              ELSE "Failed to decompress PoB code"

\* 999 characters and a newline: 1000 characters raw, still "too short"
C12_Witness ==
    /\ pc = "decode_pob_code_to_xml"
    /\ C12_ZlibFails
    /\ Len(input.clean) = 999
    /\ Len(input.code) = 1000
    /\ output = PobErr("too short")

\* the characters base64 encodes data with, in either alphabet
C13_DataChar(c) == C11_Allowed(c) /\ c # 61

C13_ThreeDataChars ==
    /\ Len(input.clean) = 3
    /\ \A i \in 1..3 : C13_DataChar(input.clean[i])

\* C13 as stated: a 3-character code of base64-alphabet characters that is
\* not zlib data raises an error whose message contains "too short".
C13_ThreeCharsTooShort ==
    pc = "decode_pob_code_to_xml" /\ C13_ThreeDataChars =>
        output = PobErr("too short")

\* C13 as the code has it: a 3-character code of base64 data characters is
\* not base64 (its padding is incorrect), so the error is "Invalid base64"
\* and the zlib stage, with its "too short" message, is not reached.
C13_ThreeCharsInvalidBase64 ==
    pc = "decode_pob_code_to_xml" /\ C13_ThreeDataChars =>
        output = PobErr("Invalid base64")

\* the code "aea" with a newline in it
C13_Witness ==
    /\ pc = "decode_pob_code_to_xml"
    /\ input.clean = <<97, 101, 97>>
    /\ input.code # input.clean
    /\ output = PobErr("Invalid base64")

-----------------------------------------------------------------------------
(* Specification of decode_pob_code_to_xml on codes of mixed alphabets *)

\* "=", ">", "~", U+0913, U+00E9, "~~", and U+0913 followed by "f" and by
\* "g": the standard codes of the last two hold "+" and "/", that of U+00E9
\* holds neither
VariantTexts ==
    {<<61>>, <<62>>, <<126>>, <<2323>>, <<233>>, <<126, 126>>,
     <<2323, 102>>, <<2323, 103>>}

\* the places of a standard code that hold "+" or "/"
SpecialPlaces(code) == {i \in 1..Len(code) : code[i] \in {PLUS, SLASH}}

\* code with the characters at the places of mask in the URL-safe alphabet
Mix(code, mask) ==
    [i \in 1..Len(code) |->
        IF i \notin mask THEN code[i]
        ELSE IF code[i] = PLUS THEN MINUS ELSE UNDERSCORE]

\* the argument is the standard import code of a text with any of its "+"
\* and "/" written "-" and "_", and possibly a newline somewhere
InitPobVariant ==
    /\ pc = "ready"
    /\ output = <<>>
    /\ \E text \in VariantTexts :
       \E mask \in SUBSET SpecialPlaces(ImportCode(text, StandardAlphabet)) :
       \E w \in 0..Len(ImportCode(text, StandardAlphabet)) + 1 :
          input = [text |-> text,
                   standard |-> ImportCode(text, StandardAlphabet),
                   clean |-> Mix(ImportCode(text, StandardAlphabet), mask),
                   code |-> WithNewline(Mix(ImportCode(text, StandardAlphabet), mask), w)]

NextPobVariant == CallDecodePobCodeToXml

SpecPobVariant == InitPobVariant /\ [][NextPobVariant]_vars

-----------------------------------------------------------------------------
(* Claims about the base64 variant, under SpecPobVariant *)

C14_HasUrlSafeChar == \E i \in 1..Len(input.clean) : input.clean[i] \in {45, 95}

C14_HasStandardChar == \E i \in 1..Len(input.clean) : input.clean[i] \in {43, 47}

\* C14: the variant depends only on the characters of the cleaned code: with
\* "-" or "_" anywhere the URL-safe decoder, otherwise the standard one; a
\* code holding neither is the same code, and decodes the same, whichever
\* encoder made it; a code mixing "-" or "_" with "+" or "/" passes the
\* alphabet validation and is decoded by the URL-safe decoder.
C14_VariantByCharacters ==
    pc = "decode_pob_code_to_xml" =>
        /\ output = PobOk(input.text)
        /\ output = Decoded(input.clean,
                            IF C14_HasUrlSafeChar THEN UrlSafeB64Decode(input.clean)
                            ELSE B64Decode(input.clean))
        /\ UrlSafeB64Decode(input.clean) = B64Decode(input.standard)
        /\ ~C14_HasUrlSafeChar /\ ~C14_HasStandardChar =>
              /\ input.clean = ImportCode(input.text, UrlSafeAlphabet)
              /\ B64Decode(input.clean) = UrlSafeB64Decode(input.clean)

\* a code holding "-" and "/", with a newline inside
C14_Witness ==
    /\ pc = "decode_pob_code_to_xml"
    /\ \E i \in 1..Len(input.clean) : input.clean[i] = 45
    /\ \E i \in 1..Len(input.clean) : input.clean[i] = 47
    /\ input.code # input.clean
    /\ input.code[1] # 10
    /\ output.err = "none"
    /\ output.xml = input.text

-----------------------------------------------------------------------------
(* str methods used by the Path of Building parsers; a str is a sequence of
   code points *)

\* str.strip()
RECURSIVE PyStrip(_)
PyStrip(s) ==
    IF s # <<>> /\ s[1] \in PyWhitespace THEN PyStrip(Tail(s))
    ELSE IF s # <<>> /\ s[Len(s)] \in PyWhitespace
    THEN PyStrip(SubSeq(s, 1, Len(s) - 1))
    ELSE s

\* the first place where sub occurs in s, 0 when there is none (str.find + 1)
Find(s, sub) ==
    IF \E i \in 1..Len(s) - Len(sub) + 1 : SubSeq(s, i, i + Len(sub) - 1) = sub
    THEN CHOOSE i \in 1..Len(s) - Len(sub) + 1 :
            /\ SubSeq(s, i, i + Len(sub) - 1) = sub
            /\ \A j \in 1..i - 1 : SubSeq(s, j, j + Len(sub) - 1) # sub
    ELSE 0

\* sub in s
Contains(s, sub) == Find(s, sub) # 0

\* s.startswith(prefix)
StartsWith(s, prefix) == Len(s) >= Len(prefix) /\ SubSeq(s, 1, Len(prefix)) = prefix

\* s.split(sep): the pieces of s between the occurrences of the character sep
RECURSIVE Split(_, _)
Split(s, sep) ==
    IF Find(s, <<sep>>) = 0 THEN <<s>>
    ELSE <<SubSeq(s, 1, Find(s, <<sep>>) - 1)>>
             \o Split(SubSeq(s, Find(s, <<sep>>) + 1, Len(s)), sep)

COLON == 58

\* s.split(":", 1)[0] and s.split(":", 1)[1], for s holding a colon
BeforeColon(s) == SubSeq(s, 1, Find(s, <<COLON>>) - 1)

AfterColon(s) == SubSeq(s, Find(s, <<COLON>>) + 1, Len(s))

IsDigit(c) == c \in 48..57

\* the decimal digits of an int literal: digits, single underscores allowed
\* between them
RECURSIVE DigitsValue(_, _, _)
DigitsValue(s, i, acc) ==
    IF i > Len(s) THEN [ok |-> TRUE, value |-> acc]
    ELSE IF IsDigit(s[i]) THEN DigitsValue(s, i + 1, 10 * acc + s[i] - 48)
    ELSE IF s[i] = UNDERSCORE /\ i > 1 /\ i < Len(s) /\ IsDigit(s[i - 1]) /\ IsDigit(s[i + 1])
    THEN DigitsValue(s, i + 1, acc)
    ELSE [ok |-> FALSE, value |-> 0]

\* the literal t without whitespace around it: an optional sign and digits
SignedValue(t) ==
    IF t = <<>> THEN [ok |-> FALSE, value |-> 0]
    ELSE IF t[1] \in {PLUS, MINUS}
    THEN IF Len(t) = 1 THEN [ok |-> FALSE, value |-> 0]
         ELSE [ok |-> DigitsValue(Tail(t), 1, 0).ok,
               value |-> IF t[1] = MINUS THEN 0 - DigitsValue(Tail(t), 1, 0).value
                         ELSE DigitsValue(Tail(t), 1, 0).value]
    ELSE DigitsValue(t, 1, 0)

\* int(s) for a str of ASCII characters; ok is FALSE where int raises
\* ValueError
ParseInt(s) == SignedValue(PyStrip(s))

-----------------------------------------------------------------------------
(* parse_item_text: the line-based item text of Path of Building.
   An item dict is a record: keys is the set of keys the dict holds; a field
   whose key is absent holds <<>>; name is <<>> with "name" in keys for None
   (a line is never empty, so a str name never is); "corrupted" in keys stands
   for corrupted = True; properties keeps insertion order. *)

NEWLINE == 10

\* "Rarity:"
RARITY_PREFIX == <<82, 97, 114, 105, 116, 121, 58>>

\* "Implicits:"
IMPLICITS_PREFIX == <<73, 109, 112, 108, 105, 99, 105, 116, 115, 58>>

\* "Corrupted"
CORRUPTED_LINE == <<67, 111, 114, 114, 117, 112, 116, 101, 100>>

\* ": "
KEY_VALUE_MARK == <<58, 32>>

\* "UNIQUE" and "RARE"
NAMED_RARITIES == {<<85, 78, 73, 81, 85, 69>>, <<82, 65, 82, 69>>}

\* "Sockets"
SOCKETS_KEY == <<83, 111, 99, 107, 101, 116, 115>>

\* "Unique ID"
UNIQUE_ID_KEY == <<85, 110, 105, 113, 117, 101, 32, 73, 68>>

\* return {}
EmptyDict ==
    [err |-> "none", keys |-> {}, rarity |-> <<>>, name |-> <<>>, base_type |-> <<>>,
     sockets |-> <<>>, unique_id |-> <<>>,
     implicit_mods |-> <<>>, explicit_mods |-> <<>>, properties |-> <<>>]

\* item_data = {"explicit_mods": [], "implicit_mods": [], "properties": {}}
NewItemData == [EmptyDict EXCEPT !.keys = {"explicit_mods", "implicit_mods", "properties"}]

\* int() raised ValueError
ItemRaises == [EmptyDict EXCEPT !.err = "ValueError"]

\* [line.strip() for line in item_text.strip().split("\n") if line.strip()]
StrippedLinesOf(pieces) ==
    SelectSeq([i \in 1..Len(pieces) |-> PyStrip(pieces[i])], LAMBDA line : line # <<>>)

ItemLines(item_text) == StrippedLinesOf(Split(PyStrip(item_text), NEWLINE))

\* every key/value line kept as a property
KeyValueAllProperties(item_data, key, value) ==
    [item_data EXCEPT !.properties = DictSet(@, key, value)]

\* the key/value branch of the loop
KeyValue(item_data, key, value) ==
    IF key = SOCKETS_KEY
    THEN [item_data EXCEPT !.keys = @ \cup {"sockets"}, !.sockets = value]
    ELSE IF key = UNIQUE_ID_KEY
    THEN [item_data EXCEPT !.keys = @ \cup {"unique_id"}, !.unique_id = value]
    ELSE [item_data EXCEPT !.properties = DictSet(@, key, value)]

\* item_data["explicit_mods"].append(line)
ExplicitMod(item_data, line) ==
    [item_data EXCEPT !.explicit_mods = Append(@, line)]

\* an implicit modifier filed with the explicit ones
ImplicitModMisfiled(item_data, line) ==
    [item_data EXCEPT !.explicit_mods = Append(@, line)]

\* item_data["implicit_mods"].append(line)
ImplicitMod(item_data, line) ==
    [item_data EXCEPT !.implicit_mods = Append(@, line)]

\* a counter that an implicit modifier leaves as it is
RemainingUnchanged(implicit_count) == implicit_count + 0

\* implicit_count -= 1
Remaining(implicit_count) == implicit_count - 1

\* for line in lines: ...
RECURSIVE ItemBody(_, _, _, _)
ImplicitsMarker(lines, item_data, count) ==
    IF ~count.ok THEN ItemRaises
    ELSE ItemBody(lines, TRUE, count.value, item_data)

ItemBody(lines, in_implicits, implicit_count, item_data) ==
    IF lines = <<>> THEN item_data
    ELSE IF StartsWith(lines[1], IMPLICITS_PREFIX)
    THEN ImplicitsMarker(Tail(lines), item_data, ParseInt(PyStrip(AfterColon(lines[1]))))
    ELSE IF lines[1] = CORRUPTED_LINE
    THEN ItemBody(Tail(lines), in_implicits, implicit_count,
                  [item_data EXCEPT !.keys = @ \cup {"corrupted"}])
    ELSE IF Contains(lines[1], KEY_VALUE_MARK)
    THEN ItemBody(Tail(lines), in_implicits, implicit_count,
                  KeyValue(item_data, PyStrip(BeforeColon(lines[1])),
                           PyStrip(AfterColon(lines[1]))))
    ELSE IF in_implicits /\ implicit_count > 0
    THEN ItemBody(Tail(lines), Remaining(implicit_count) # 0, Remaining(implicit_count),
                  ImplicitMod(item_data, lines[1]))
    ELSE ItemBody(Tail(lines), in_implicits, implicit_count,
                  ExplicitMod(item_data, lines[1]))

\* name and base_type, then the loop over the remaining lines
ItemNames(lines, item_data) ==
    IF "rarity" \in item_data.keys /\ item_data.rarity \in NAMED_RARITIES
    THEN IF Len(lines) >= 2
         THEN ItemBody(SubSeq(lines, 3, Len(lines)), FALSE, 0,
                       [item_data EXCEPT !.keys = @ \cup {"name", "base_type"},
                                         !.name = lines[1], !.base_type = lines[2]])
         ELSE ItemBody(lines, FALSE, 0, item_data)
    ELSE IF lines # <<>>
    THEN ItemBody(Tail(lines), FALSE, 0,
                  [item_data EXCEPT !.keys = @ \cup {"name", "base_type"},
                                    !.base_type = lines[1]])
    ELSE ItemBody(lines, FALSE, 0, item_data)

\* the first line taken for the rarity line whatever it says
ItemRarityAssumed(lines) ==
    IF lines = <<>> THEN EmptyDict
    ELSE ItemNames(Tail(lines),
                   [NewItemData EXCEPT !.keys = @ \cup {"rarity"},
                                       !.rarity = PyStrip(lines[1])])

\* the rarity line, then the rest
ItemRarity(lines) ==
    IF lines = <<>> THEN EmptyDict
    ELSE IF StartsWith(lines[1], RARITY_PREFIX)
    THEN ItemNames(Tail(lines),
                   [NewItemData EXCEPT !.keys = @ \cup {"rarity"},
                                       !.rarity = PyStrip(AfterColon(lines[1]))])
    ELSE ItemNames(lines, NewItemData)

ParseItemText(item_text) == ItemRarity(ItemLines(item_text))

-----------------------------------------------------------------------------
(* Item texts: a head (nothing, a base type, a rarity line, or rarity, name
   and base type) followed by at most MaxBody lines, joined by "\n" *)

MaxBody == 4

\* "Sword"
LINE_SWORD == <<83, 119, 111, 114, 100>>

\* "Rarity: RARE"
LINE_RARE == <<82, 97, 114, 105, 116, 121, 58, 32, 82, 65, 82, 69>>

\* "Doom Edge"
LINE_NAME == <<68, 111, 111, 109, 32, 69, 100, 103, 101>>

\* "Life" and "Mana": modifier lines
LINE_LIFE == <<76, 105, 102, 101>>

LINE_MANA == <<77, 97, 110, 97>>

\* "Implicits: 1", "Implicits: 2", "Implicits: x" and "Implicits:"
LINE_IMPLICITS_1 == <<73, 109, 112, 108, 105, 99, 105, 116, 115, 58, 32, 49>>

LINE_IMPLICITS_2 == <<73, 109, 112, 108, 105, 99, 105, 116, 115, 58, 32, 50>>

LINE_IMPLICITS_X == <<73, 109, 112, 108, 105, 99, 105, 116, 115, 58, 32, 120>>

LINE_IMPLICITS_NONE == <<73, 109, 112, 108, 105, 99, 105, 116, 115, 58>>

\* " Corrupted"
LINE_CORRUPTED == <<32, 67, 111, 114, 114, 117, 112, 116, 101, 100>>

\* "Armour: 5"
LINE_ARMOUR == <<65, 114, 109, 111, 117, 114, 58, 32, 53>>

\* " ": a blank line
LINE_BLANK == <<32>>

Heads == {<<>>, <<LINE_SWORD>>, <<LINE_RARE>>, <<LINE_RARE, LINE_NAME, LINE_SWORD>>}

BodyVocabulary ==
    {LINE_LIFE, LINE_MANA, LINE_IMPLICITS_1, LINE_IMPLICITS_2, LINE_IMPLICITS_X,
     LINE_IMPLICITS_NONE, LINE_CORRUPTED, LINE_ARMOUR, LINE_BLANK}

\* "\n".join(lines)
RECURSIVE JoinLines(_)
JoinLines(lines) ==
    IF lines = <<>> THEN <<>>
    ELSE IF Len(lines) = 1 THEN lines[1]
    ELSE lines[1] \o <<NEWLINE>> \o JoinLines(Tail(lines))

InitItemText ==
    /\ pc = "ready"
    /\ output = <<>>
    /\ \E head \in Heads : \E n \in 0..MaxBody : \E body \in [1..n -> BodyVocabulary] :
          input = [head |-> head, body |-> body, item_text |-> JoinLines(head \o body)]

CallParseItemText ==
    /\ pc = "ready"
    /\ "item_text" \in DOMAIN input
    /\ pc' = "parse_item_text"
    /\ output' = ParseItemText(input.item_text)
    /\ UNCHANGED input

NextItemText == CallParseItemText

SpecItemText == InitItemText /\ [][NextItemText]_vars

-----------------------------------------------------------------------------
(* Claims about parse_item_text, under SpecItemText.
   The body lines of an item text, told from the lines the text was built of *)

\* the lines of the text as written, stripped, the blank ones left out
GivenLines == StrippedLinesOf(input.head \o input.body)

\* how many of them the rarity, the name and the base type take
HeadLength ==
    IF GivenLines = <<>> THEN 0
    ELSE IF GivenLines[1] = LINE_RARE
    THEN IF Len(GivenLines) >= 3 THEN 3 ELSE 1
    ELSE IF StartsWith(GivenLines[1], RARITY_PREFIX)
    THEN Min(2, Len(GivenLines))
    ELSE 1

BodyLines == SubSeq(GivenLines, HeadLength + 1, Len(GivenLines))

IsMarkerLine(line) == StartsWith(line, IMPLICITS_PREFIX)

IsModifierLine(line) ==
    /\ ~IsMarkerLine(line)
    /\ line # CORRUPTED_LINE
    /\ ~Contains(line, KEY_VALUE_MARK)

\* the N of the marker lines "Implicits: 1" and "Implicits: 2"
DeclaredCount(line) == IF line = LINE_IMPLICITS_1 THEN 1 ELSE 2

\* the place of the last marker before body line i, 0 when there is none
MarkerBefore(i) ==
    IF \E j \in 1..i - 1 : IsMarkerLine(BodyLines[j])
    THEN CHOOSE j \in 1..i - 1 :
            /\ IsMarkerLine(BodyLines[j])
            /\ \A k \in j + 1..i - 1 : ~IsMarkerLine(BodyLines[k])
    ELSE 0

\* the modifier lines strictly between the places j and i
ModifiersBetween(j, i) == {k \in j + 1..i - 1 : IsModifierLine(BodyLines[k])}

\* body line i is one of the first N modifier lines after its marker
ImplicitPlace(i) ==
    /\ IsModifierLine(BodyLines[i])
    /\ MarkerBefore(i) # 0
    /\ Cardinality(ModifiersBetween(MarkerBefore(i), i))
           < DeclaredCount(BodyLines[MarkerBefore(i)])

ExplicitPlace(i) == IsModifierLine(BodyLines[i]) /\ ~ImplicitPlace(i)

\* the body lines at the places of a kind, in input order
BodyLinesAt(Place(_)) ==
    LET places == SelectSeq([i \in 1..Len(BodyLines) |-> i], Place)
    IN  [k \in 1..Len(places) |-> BodyLines[places[k]]]

\* parse_item_text returned a record with the three collections
ItemAccepted == pc = "parse_item_text" /\ output.err = "none" /\ output.keys # {}

\* C18: after a line "Implicits: N" the next N modifier lines (no marker, not
\* "Corrupted", no ": ") go to implicit_mods in input order and every other
\* modifier line goes to explicit_mods in input order; key/value lines and
\* "Corrupted" between implicit modifiers do not count, and the implicit
\* region closes when N modifier lines were taken.
C18_ImplicitsThenExplicits ==
    ItemAccepted =>
        /\ output.implicit_mods = BodyLinesAt(ImplicitPlace)
        /\ output.explicit_mods = BodyLinesAt(ExplicitPlace)

\* a marker with N = 1, a key/value line before its implicit modifier, and a
\* modifier line after the region closed
C18_Witness ==
    /\ ItemAccepted
    /\ input.head = <<LINE_SWORD>>
    /\ input.body = <<LINE_IMPLICITS_1, LINE_ARMOUR, LINE_LIFE, LINE_MANA>>
    /\ output.implicit_mods = <<LINE_LIFE>>
    /\ output.explicit_mods = <<LINE_MANA>>

\* the marker lines among the body lines
BodyMarkers == {j \in 1..Len(BodyLines) : IsMarkerLine(BodyLines[j])}

\* the text holds the line "Implicits: N"
TextHolds(marker) == \E i \in 1..Len(GivenLines) : GivenLines[i] = marker

\* C19 as stated: for an accepted text holding a line "Implicits: N",
\* len(implicit_mods) = N; without a marker implicit_mods is empty.
C19_LengthIsDeclaredCount ==
    ItemAccepted =>
        /\ TextHolds(LINE_IMPLICITS_1) => Len(output.implicit_mods) = 1
        /\ TextHolds(LINE_IMPLICITS_2) => Len(output.implicit_mods) = 2
        /\ (\A i \in 1..Len(GivenLines) : ~IsMarkerLine(GivenLines[i]))
               => output.implicit_mods = <<>>

\* C19 (amended): with one marker "Implicits: N" among the body lines,
\* len(implicit_mods) is the smaller of N and the number of modifier lines
\* after the marker; with no marker among the body lines implicit_mods is
\* empty.
C19_LengthAtMostDeclaredCount ==
    ItemAccepted =>
        /\ BodyMarkers = {} => output.implicit_mods = <<>>
        /\ \A j \in BodyMarkers :
              BodyMarkers = {j} =>
                  Len(output.implicit_mods)
                      = Min(DeclaredCount(BodyLines[j]),
                            Cardinality(ModifiersBetween(j, Len(BodyLines) + 1)))

\* "Implicits: 2" followed by three modifier lines: two implicits
C19_Witness ==
    /\ ItemAccepted
    /\ BodyMarkers = {1}
    /\ BodyLines[1] = LINE_IMPLICITS_2
    /\ Cardinality(ModifiersBetween(1, Len(BodyLines) + 1)) = 3
    /\ Len(output.implicit_mods) = 2

\* C20: parse_item_text raises for no input text.
C20_NeverRaises == pc = "parse_item_text" => output.err = "none"

-----------------------------------------------------------------------------
(* xml.etree.ElementTree.  The text of a document is taken as the events
   expat reports for it: the start of an element with its attributes, the
   end of an element, character data.  An element is a record of its tag,
   its attributes in document order, its text (<<>> for None: expat reports
   no empty data) and its children.  Tags and attribute names are strings,
   attribute values and text are sequences of code points. *)

StartTag(tag, attrib) == [kind |-> "start", tag |-> tag, attrib |-> attrib, text |-> <<>>]

EndTag(tag) == [kind |-> "end", tag |-> tag, attrib |-> <<>>, text |-> <<>>]

CharData(text) == [kind |-> "data", tag |-> "", attrib |-> <<>>, text |-> text]

\* white space of XML
XmlSpace == {32, 9, 10, 13}

\* ET.ParseError and the tree of a well-formed document
ParseError == [err |-> "ParseError", root |-> <<>>]

Parsed(done) == [err |-> "none", root |-> done]

\* the innermost open element is closed: it becomes the last child of the
\* element around it
CloseTop(stack) ==
    IF Len(stack) = 1 THEN <<>>
    ELSE SubSeq(stack, 1, Len(stack) - 2)
            \o <<[stack[Len(stack) - 1] EXCEPT !.children = Append(@, stack[Len(stack)])]>>

\* character data inside the innermost open element: its text before its
\* first child, the tail of a child after (which the parsers never read)
AddData(stack, text) ==
    IF stack[Len(stack)].children = <<>>
    THEN [stack EXCEPT ![Len(stack)].text = @ \o text]
    ELSE stack

\* XMLParser feeding a TreeBuilder: stack holds the open elements, done the
\* closed document element
RECURSIVE TreeBuilder(_, _, _)
TreeBuilder(events, stack, done) ==
    IF events = <<>>
    THEN IF stack = <<>> /\ done # <<>> THEN Parsed(done) ELSE ParseError
    ELSE IF events[1].kind = "start"
    THEN IF \/ stack = <<>> /\ done # <<>>
            \/ Cardinality(DictKeys(events[1].attrib)) # Len(events[1].attrib)
         THEN ParseError
         ELSE TreeBuilder(Tail(events),
                          Append(stack, [tag |-> events[1].tag, attrib |-> events[1].attrib,
                                         text |-> <<>>, children |-> <<>>]),
                          done)
    ELSE IF events[1].kind = "end"
    THEN IF stack = <<>> \/ stack[Len(stack)].tag # events[1].tag
         THEN ParseError
         ELSE TreeBuilder(Tail(events), CloseTop(stack),
                          IF Len(stack) = 1 THEN stack ELSE done)
    ELSE IF stack = <<>>
    THEN IF \A i \in 1..Len(events[1].text) : events[1].text[i] \in XmlSpace
         THEN TreeBuilder(Tail(events), stack, done)
         ELSE ParseError
    ELSE TreeBuilder(Tail(events), AddData(stack, events[1].text), done)

\* ET.fromstring(xml_content)
FromString(xml_content) == TreeBuilder(xml_content, <<>>, <<>>)

\* element.findall(tag): the children with the tag, in document order
FindAll(element, tag) == SelectSeq(element.children, LAMBDA child : child.tag = tag)

\* element.get(key, default)
Get(element, key, default) ==
    IF DictHas(element.attrib, key) THEN DictAt(element.attrib, key) ELSE default

\* element.get(key) is not None and not ""
HasValue(element, key) == DictHas(element.attrib, key) /\ DictAt(element.attrib, key) # <<>>

\* the elements below an element, in document order
RECURSIVE Below(_)
Below(children) ==
    IF children = <<>> THEN <<>>
    ELSE <<children[1]>> \o Below(children[1].children) \o Below(Tail(children))

Descendants(element) == Below(element.children)

-----------------------------------------------------------------------------
(* extract_items: the items of the active item set by slot name *)

APOSTROPHE == 39

\* "0": the itemId of an empty slot
EMPTY_SLOT == <<48>>

\* "1": the item set of an <Items> without activeItemSet
DEFAULT_ITEM_SET == <<49>>

\* "Abyssal" and "Swap"
ABYSSAL == <<65, 98, 121, 115, 115, 97, 108>>

SWAP == <<83, 119, 97, 112>>

ItemsOk(slot_mapping) == [err |-> "none", slot_mapping |-> slot_mapping]

ItemsRaise(err) == [err |-> err, slot_mapping |-> <<>>]

\* for item_elem in items_elem.findall("Item"): the items by id, or the
\* ValueError of parse_item_text
RECURSIVE ItemsById(_, _)
StoreItem(item_elems, items_by_id, item_id, item) ==
    IF item.err # "none" THEN [err |-> item.err, items_by_id |-> <<>>]
    ELSE ItemsById(item_elems, DictSet(items_by_id, item_id, item))

ItemsById(item_elems, items_by_id) ==
    IF item_elems = <<>> THEN [err |-> "none", items_by_id |-> items_by_id]
    ELSE IF HasValue(item_elems[1], "id") /\ PyStrip(item_elems[1].text) # <<>>
    THEN StoreItem(Tail(item_elems), items_by_id, Get(item_elems[1], "id", <<>>),
                   ParseItemText(item_elems[1].text))
    ELSE ItemsById(Tail(item_elems), items_by_id)

\* for slot_elem in item_set.findall("Slot"): ...
RECURSIVE SlotMapping(_, _, _)
SlotMapping(slot_elems, items_by_id, slot_mapping) ==
    IF slot_elems = <<>> THEN slot_mapping
    ELSE IF \/ Get(slot_elems[1], "itemId", EMPTY_SLOT) = EMPTY_SLOT
            \/ Contains(Get(slot_elems[1], "name", <<>>), ABYSSAL)
            \/ Contains(Get(slot_elems[1], "name", <<>>), SWAP)
            \/ ~DictHas(items_by_id, Get(slot_elems[1], "itemId", EMPTY_SLOT))
    THEN SlotMapping(Tail(slot_elems), items_by_id, slot_mapping)
    ELSE SlotMapping(Tail(slot_elems), items_by_id,
                     DictSet(slot_mapping, Get(slot_elems[1], "name", <<>>),
                             DictAt(items_by_id, Get(slot_elems[1], "itemId", EMPTY_SLOT))))

\* the elements that ".//ItemSet[@id='<id>']" selects, for an id without
\* apostrophe
ItemSetsWithId(tree, id) ==
    SelectSeq(Descendants(tree),
              LAMBDA element : element.tag = "ItemSet" /\ DictHas(element.attrib, "id")
                                   /\ DictAt(element.attrib, "id") = id)

\* tree.find(f".//ItemSet[@id='{active_item_set_id}']") and the loop over its
\* slots.  An apostrophe in the id ends the quoted value of the predicate
\* early; the rest is not a predicate ElementPath knows, for an id that holds
\* no further path syntax (none of the model does): SyntaxError.
ActiveSlots(tree, active_item_set_id, items_by_id) ==
    IF \E i \in 1..Len(active_item_set_id) : active_item_set_id[i] = APOSTROPHE
    THEN ItemsRaise("SyntaxError")
    ELSE IF ItemSetsWithId(tree, active_item_set_id) = <<>> THEN ItemsOk(<<>>)
    ELSE ItemsOk(SlotMapping(FindAll(ItemSetsWithId(tree, active_item_set_id)[1], "Slot"),
                             items_by_id, <<>>))

ItemsOfElement(tree, items_elem, by_id) ==
    IF by_id.err # "none" THEN ItemsRaise(by_id.err)
    ELSE ActiveSlots(tree, Get(items_elem, "activeItemSet", DEFAULT_ITEM_SET), by_id.items_by_id)

ExtractItems(tree) ==
    IF FindAll(tree, "Items") = <<>> THEN ItemsOk(<<>>)
    ELSE ItemsOfElement(tree, FindAll(tree, "Items")[1],
                        ItemsById(FindAll(FindAll(tree, "Items")[1], "Item"), <<>>))

-----------------------------------------------------------------------------
(* _xml_to_dict and parse_pob_xml *)

\* the dict of an element: keys tells which of _attrib, _text and _children
\* it holds beside _tag
RECURSIVE XmlToDict(_)
XmlToDict(element) ==
    [tag |-> element.tag,
     keys |-> {"_tag"} \cup (IF element.attrib # <<>> THEN {"_attrib"} ELSE {})
                       \cup (IF PyStrip(element.text) # <<>> THEN {"_text"} ELSE {})
                       \cup (IF element.children # <<>> THEN {"_children"} ELSE {}),
     attrib |-> element.attrib,
     text |-> PyStrip(element.text),
     children |-> [i \in 1..Len(element.children) |-> XmlToDict(element.children[i])]]

\* "Unnamed Build"
UNNAMED_BUILD == <<85, 110, 110, 97, 109, 101, 100, 32, 66, 117, 105, 108, 100>>

\* the outcome of parse_pob_xml: a Build, or an exception and what its
\* message says; ascendancy is <<>> for None
NoBuild ==
    [err |-> "none", message |-> "", game |-> "", name |-> <<>>, character_class |-> <<>>,
     level |-> 0, ascendancy |-> <<>>, source |-> "", items |-> <<>>,
     passive_tree |-> "None", skills |-> "None", upstream_data |-> <<>>]

Raises(err, message) == [NoBuild EXCEPT !.err = err, !.message = message]

\* the value as it is, empty or not
OrDefaultKeepsEmpty(value, default) == IF value # <<>> THEN value ELSE <<>>

\* value or default, for a value where None is <<>>
OrDefault(value, default) == IF value = <<>> THEN default ELSE value

\* the attribute is absent, an empty one counting as present
MissingKey(build_elem, key) == ~DictHas(build_elem.attrib, key)

\* if not character_class / if not level_str
Missing(build_elem, key) == ~HasValue(build_elem, key)

\* the optional fields, the items and the Build
BuildOf(tree, build_elem, game, level, items) ==
    IF items.err = "ValueError" THEN Raises("ValueError", "invalid literal for int()")
    ELSE IF items.err = "SyntaxError" THEN Raises("SyntaxError", "invalid predicate")
    ELSE [NoBuild EXCEPT
            !.game = game,
            !.name = OrDefault(Get(build_elem, "buildName", <<>>), UNNAMED_BUILD),
            !.character_class = Get(build_elem, "className", <<>>),
            !.level = level,
            !.ascendancy = OrDefault(Get(build_elem, "ascendClassName", <<>>), <<>>),
            !.source = "pob",
            !.items = items.slot_mapping,
            !.upstream_data = XmlToDict(tree)]

\* the required fields
BuildFields(tree, build_elem, game) ==
    IF Missing(build_elem, "className")
    THEN Raises("ValueError", "PoB XML missing className attribute")
    ELSE IF Missing(build_elem, "level")
    THEN Raises("ValueError", "PoB XML missing level attribute")
    ELSE IF ~ParseInt(Get(build_elem, "level", <<>>)).ok
    THEN Raises("ValueError", "Invalid level value")
    ELSE BuildOf(tree, build_elem, game, ParseInt(Get(build_elem, "level", <<>>)).value,
                 ExtractItems(tree))

\* build_elem = tree.find("Build")
BuildElement(tree, game) ==
    IF FindAll(tree, "Build") = <<>>
    THEN Raises("ValueError", "PoB XML missing <Build> element")
    ELSE BuildFields(tree, FindAll(tree, "Build")[1], game)

ParseTree(parsed, game) ==
    IF parsed.err # "none" THEN Raises("ValueError", "Invalid PoB XML")
    ELSE BuildElement(parsed.root[1], game)

ParsePobXml(xml_content, game) == ParseTree(FromString(xml_content), game)

-----------------------------------------------------------------------------
(* Documents for parse_pob_xml: a <Build> with each of its four attributes
   absent, empty or set, placed as a child of the root (after up to MaxOthers
   other elements), before a second <Build>, below another element, as the
   root itself, or left out; with or without <Items>; well-formed or broken
   in one of five ways *)

MaxOthers == 1

Attribute(key, value) == [key |-> key, vals |-> value]

\* the events of <tag attrib>inner</tag>
Node(tag, attrib, inner) == <<StartTag(tag, attrib)>> \o inner \o <<EndTag(tag)>>

\* an attribute left out, or given one of the values
Options(key, values) == {<<>>} \cup {<<Attribute(key, value)>> : value \in values}

\* "Witch", "90", " 7", "x", "Occultist", "Zed"
WITCH == <<87, 105, 116, 99, 104>>

LEVEL_90 == <<57, 48>>

LEVEL_7 == <<32, 55>>

LEVEL_X == <<120>>

OCCULTIST == <<79, 99, 99, 117, 108, 116, 105, 115, 116>>

ZED == <<90, 101, 100>>

BuildAttribs ==
    {c \o l \o a \o n :
        c \in Options("className", {<<>>, WITCH}),
        l \in Options("level", {<<>>, LEVEL_90, LEVEL_7, LEVEL_X}),
        a \in Options("ascendClassName", {<<>>, OCCULTIST}),
        n \in Options("buildName", {<<>>, ZED})}

\* className="Witch" level="90"
CompleteBuild == <<Attribute("className", WITCH), Attribute("level", LEVEL_90)>>

\* n elements <Other/>
RECURSIVE Others(_)
Others(n) == IF n = 0 THEN <<>> ELSE Node("Other", <<>>, <<>>) \o Others(n - 1)

\* <Items> with one item in the slot "Helmet" of item set 1
ItemsWith(item_text) ==
    Node("Items", <<>>,
         Node("Item", <<Attribute("id", <<53>>)>>, <<CharData(item_text)>>)
            \o Node("ItemSet", <<Attribute("id", <<49>>)>>,
                    Node("Slot", <<Attribute("name", <<72, 101, 108, 109, 101, 116>>),
                                   Attribute("itemId", <<53>>)>>, <<>>)))

ItemsParts ==
    {<<>>, ItemsWith(LINE_SWORD),
     ItemsWith(LINE_SWORD \o <<NEWLINE>> \o LINE_IMPLICITS_X)}

Shapes == {"child", "first", "nested", "root", "none"}

Document(shape, others, build, items) ==
    IF shape = "child"
    THEN Node("PathOfBuilding", <<>>, Others(others) \o Node("Build", build, <<>>) \o items)
    ELSE IF shape = "first"
    THEN Node("PathOfBuilding", <<>>,
              Node("Build", build, <<>>) \o Node("Build", CompleteBuild, <<>>) \o items)
    ELSE IF shape = "nested"
    THEN Node("PathOfBuilding", <<>>, Node("Tree", <<>>, Node("Build", build, <<>>)) \o items)
    ELSE IF shape = "root"
    THEN Node("Build", build, items)
    ELSE Node("PathOfBuilding", <<>>, Others(others) \o items)

Breakages == {"none", "unclosed", "mismatched", "junk", "empty", "duplicate"}

\* a document that is not well formed
Broken(document, breakage) ==
    IF breakage = "unclosed" THEN SubSeq(document, 1, Len(document) - 1)
    ELSE IF breakage = "mismatched"
    THEN SubSeq(document, 1, Len(document) - 1) \o <<EndTag("Other")>>
    ELSE IF breakage = "junk" THEN document \o <<CharData(LEVEL_X)>>
    ELSE IF breakage = "empty" THEN <<>>
    ELSE IF breakage = "duplicate"
    THEN <<[document[1] EXCEPT !.attrib = @ \o <<Attribute("v", <<>>), Attribute("v", <<>>)>>]>>
            \o Tail(document)
    ELSE document

Games == {"poe1", "poe2"}

InitPobXml ==
    /\ pc = "ready"
    /\ output = <<>>
    /\ \E shape \in Shapes, others \in 0..MaxOthers, build \in BuildAttribs,
          items \in ItemsParts, breakage \in Breakages, game \in Games :
          /\ shape # "child" => others = 0 \/ (shape = "none" /\ build = CompleteBuild)
          /\ shape = "none" => build = CompleteBuild
          /\ input = [xml_content |-> Broken(Document(shape, others, build, items), breakage),
                      game |-> game, shape |-> shape, build |-> build,
                      malformed |-> breakage # "none"]

CallParsePobXml ==
    /\ pc = "ready"
    /\ "xml_content" \in DOMAIN input
    /\ pc' = "parse_pob_xml"
    /\ output' = ParsePobXml(input.xml_content, input.game)
    /\ UNCHANGED input

NextPobXml == CallParsePobXml

SpecPobXml == InitPobXml /\ [][NextPobXml]_vars

-----------------------------------------------------------------------------
(* Claims about parse_pob_xml, under SpecPobXml *)

\* the <Build> of the document gives the attribute a non-empty value
BuildHas(key) == DictHas(input.build, key) /\ DictAt(input.build, key) # <<>>

\* the <Build> is a child of the root
DirectBuild == input.shape \in {"child", "first"}

\* the level of the <Build> is one of the integer literals "90" and " 7"
LevelIsInteger == DictAt(input.build, "level") \in {LEVEL_90, LEVEL_7}

LevelNumber == IF DictAt(input.build, "level") = LEVEL_90 THEN 90 ELSE 7

RaisesValueError(message) == output.err = "ValueError" /\ output.message = message

\* C15: parse_pob_xml fails with the first applicable error in the order
\* malformed XML, no <Build> child of the root, className absent or empty,
\* level absent or empty, level not an integer; it returns a Build only when
\* all five checks pass, with character_class and level as the attributes
\* give them.
C15_FirstApplicableError ==
    pc = "parse_pob_xml" =>
        /\ input.malformed => RaisesValueError("Invalid PoB XML")
        /\ ~input.malformed /\ ~DirectBuild
               => RaisesValueError("PoB XML missing <Build> element")
        /\ ~input.malformed /\ DirectBuild /\ ~BuildHas("className")
               => RaisesValueError("PoB XML missing className attribute")
        /\ ~input.malformed /\ DirectBuild /\ BuildHas("className") /\ ~BuildHas("level")
               => RaisesValueError("PoB XML missing level attribute")
        /\ ~input.malformed /\ DirectBuild /\ BuildHas("className") /\ BuildHas("level")
                /\ ~LevelIsInteger
               => RaisesValueError("Invalid level value")
        /\ output.err = "none"
               => /\ ~input.malformed /\ DirectBuild
                  /\ BuildHas("className") /\ BuildHas("level") /\ LevelIsInteger
                  /\ output.character_class = DictAt(input.build, "className")
                  /\ output.level = LevelNumber

\* the first <Build> of two has neither className nor level, the second has
\* both: the missing className is reported
C15_Witness ==
    /\ pc = "parse_pob_xml"
    /\ ~input.malformed
    /\ input.shape = "first"
    /\ ~DictHas(input.build, "className") /\ ~DictHas(input.build, "level")
    /\ RaisesValueError("PoB XML missing className attribute")

\* C16: a parsed build has the buildName as name if that is present and not
\* empty and "Unnamed Build" otherwise, ascendClassName as ascendancy if that
\* is present and not empty and None otherwise, source "pob", the game of
\* the call, and None as passive_tree and skills.
C16_OptionalFields ==
    pc = "parse_pob_xml" /\ output.err = "none" =>
        /\ output.name = IF BuildHas("buildName") THEN DictAt(input.build, "buildName")
                         ELSE UNNAMED_BUILD
        /\ output.ascendancy = IF BuildHas("ascendClassName")
                               THEN DictAt(input.build, "ascendClassName")
                               ELSE <<>>
        /\ output.source = "pob"
        /\ output.game = input.game
        /\ output.passive_tree = "None"
        /\ output.skills = "None"

\* buildName="" and no ascendClassName, game poe2
C16_Witness ==
    /\ pc = "parse_pob_xml" /\ output.err = "none"
    /\ DictHas(input.build, "buildName") /\ ~BuildHas("buildName")
    /\ ~DictHas(input.build, "ascendClassName")
    /\ input.game = "poe2"
    /\ output.name = UNNAMED_BUILD /\ output.ascendancy = <<>> /\ output.game = "poe2"

-----------------------------------------------------------------------------
(* Documents for extract_items: <Items> with four items (5 a sword, 7 an axe,
   8 blank, one without id) and two item sets, one with up to MaxSlots slots
   of SlotVocabulary and one with the slot "Boots" of item 5; the second set
   inside <Items> or before it under the root; activeItemSet absent or one of
   ActiveIds *)

MaxSlots == 2

\* "5", "7", "8", "9", "2", "3" and "a'b"
ID_5 == <<53>>

ID_7 == <<55>>

ID_8 == <<56>>

ID_9 == <<57>>

ID_2 == <<50>>

ID_3 == <<51>>

ID_QUOTED == <<97, APOSTROPHE, 98>>

\* "Helm", "Ring", "Boots", "xAbyssal" and "Swap 1"
NAME_HELM == <<72, 101, 108, 109>>

NAME_RING == <<82, 105, 110, 103>>

NAME_BOOTS == <<66, 111, 111, 116, 115>>

NAME_ABYSSAL == <<120, 65, 98, 121, 115, 115, 97, 108>>

NAME_SWAP == <<83, 119, 97, 112, 32, 49>>

\* "Axe"
LINE_AXE == <<65, 120, 101>>

Slot(name, item_id) == <<Attribute("name", name), Attribute("itemId", item_id)>>

SlotVocabulary ==
    {Slot(NAME_HELM, ID_5), Slot(NAME_HELM, ID_7), Slot(NAME_RING, ID_5),
     Slot(NAME_ABYSSAL, ID_5), Slot(NAME_SWAP, ID_5),
     Slot(NAME_RING, EMPTY_SLOT), Slot(NAME_RING, ID_9), Slot(NAME_RING, ID_8),
     <<Attribute("itemId", ID_5)>>, <<Attribute("name", NAME_RING)>>}

ActiveIds == {DEFAULT_ITEM_SET, ID_2, ID_3, ID_QUOTED}

\* the ids of the set with the chosen slots and of the set with "Boots"
SetIds ==
    {<<DEFAULT_ITEM_SET, ID_2>>, <<ID_2, DEFAULT_ITEM_SET>>,
     <<DEFAULT_ITEM_SET, DEFAULT_ITEM_SET>>, <<ID_QUOTED, ID_2>>}

TheItems ==
    Node("Item", <<Attribute("id", ID_5)>>, <<CharData(LINE_SWORD)>>)
        \o Node("Item", <<Attribute("id", ID_7)>>, <<CharData(LINE_AXE)>>)
        \o Node("Item", <<Attribute("id", ID_8)>>, <<CharData(LINE_BLANK)>>)
        \o Node("Item", <<>>, <<CharData(LINE_AXE)>>)

RECURSIVE SlotNodes(_)
SlotNodes(slots) ==
    IF slots = <<>> THEN <<>>
    ELSE Node("Slot", slots[1], <<>>) \o SlotNodes(Tail(slots))

ItemSetNode(set) == Node("ItemSet", <<Attribute("id", set.id)>>, SlotNodes(set.slots))

\* the document of the item sets in document order
ItemsDocument(active, sets, placement) ==
    IF placement = "inside"
    THEN Node("PathOfBuilding", <<>>,
              Node("Items", active, TheItems \o ItemSetNode(sets[1]) \o ItemSetNode(sets[2])))
    ELSE Node("PathOfBuilding", <<>>,
              Node("Loadout", <<>>, ItemSetNode(sets[1]))
                 \o Node("Items", active, TheItems \o ItemSetNode(sets[2])))

InitItems ==
    /\ pc = "ready"
    /\ output = <<>>
    /\ \E active \in Options("activeItemSet", ActiveIds), ids \in SetIds,
          placement \in {"inside", "before"}, n \in 0..MaxSlots :
          \E slots \in [1..n -> SlotVocabulary] :
             LET chosen == [id |-> ids[1], slots |-> slots]
                 boots == [id |-> ids[2], slots |-> <<Slot(NAME_BOOTS, ID_5)>>]
                 sets == IF placement = "inside" THEN <<chosen, boots>> ELSE <<boots, chosen>>
             IN  input = [tree |-> ItemsDocument(active, sets, placement),
                          active |-> active, sets |-> sets]

CallExtractItems ==
    /\ pc = "ready"
    /\ "tree" \in DOMAIN input
    /\ pc' = "extract_items"
    /\ output' = ExtractItems(FromString(input.tree).root[1])
    /\ UNCHANGED input

NextItems == CallExtractItems

SpecItems == InitItems /\ [][NextItems]_vars

-----------------------------------------------------------------------------
(* Claims about extract_items, under SpecItems *)

\* the activeItemSet of <Items>, "1" when it has none
ActiveItemSetId == IF input.active = <<>> THEN DEFAULT_ITEM_SET ELSE input.active[1].vals

\* the item sets of the document with that id, in document order
ActiveSets == SelectSeq(input.sets, LAMBDA set : set.id = ActiveItemSetId)

ActiveSlotsGiven == IF ActiveSets = <<>> THEN <<>> ELSE ActiveSets[1].slots

SlotName(slot) == IF DictHas(slot, "name") THEN DictAt(slot, "name") ELSE <<>>

\* the record of the items 5 and 7, the <Item>s with an id and text
RecordOf(item_id) == ParseItemText(IF item_id = ID_5 THEN LINE_SWORD ELSE LINE_AXE)

\* a slot that contributes an entry
Equipped(slot) ==
    /\ DictHas(slot, "itemId")
    /\ DictAt(slot, "itemId") # EMPTY_SLOT
    /\ ~Contains(SlotName(slot), ABYSSAL)
    /\ ~Contains(SlotName(slot), SWAP)
    /\ DictAt(slot, "itemId") \in {ID_5, ID_7}

EquippedPlaces == {i \in 1..Len(ActiveSlotsGiven) : Equipped(ActiveSlotsGiven[i])}

\* C17: extract_items returns the map with an entry name -> record exactly
\* for the slots of the item set with the active id ("1" without
\* activeItemSet) that have an itemId other than "0", a name without
\* "Abyssal" and "Swap", and the id of an item with non-blank text; the slots
\* of other item sets do not contribute, no key holds "Abyssal" or "Swap",
\* and without an item set of the active id the map is empty.
C17_SlotsOfActiveItemSet ==
    pc = "extract_items" =>
        /\ output.err = "none"
        /\ DictKeys(output.slot_mapping)
               = {SlotName(ActiveSlotsGiven[i]) : i \in EquippedPlaces}
        /\ \A key \in DictKeys(output.slot_mapping) :
              /\ \E i \in EquippedPlaces :
                    /\ SlotName(ActiveSlotsGiven[i]) = key
                    /\ DictAt(output.slot_mapping, key)
                           = RecordOf(DictAt(ActiveSlotsGiven[i], "itemId"))
              /\ ~Contains(key, ABYSSAL)
              /\ ~Contains(key, SWAP)
        /\ ActiveSets = <<>> => output.slot_mapping = <<>>

-----------------------------------------------------------------------------
(* Item texts for the fields of the record: a head (nothing, a base type, a
   rarity line of a named or an unnamed rarity, or rarity, name and base
   type) followed by at most MaxFields lines of FieldVocabulary *)

MaxFields == 3

\* "Rarity: MAGIC"
LINE_MAGIC == <<82, 97, 114, 105, 116, 121, 58, 32, 77, 65, 71, 73, 67>>

\* "Armour: 7", "Sockets: R-G" and "Unique ID: ab"
LINE_ARMOUR_7 == <<65, 114, 109, 111, 117, 114, 58, 32, 55>>

LINE_SOCKETS == <<83, 111, 99, 107, 101, 116, 115, 58, 32, 82, 45, 71>>

LINE_UNIQUE_ID == <<85, 110, 105, 113, 117, 101, 32, 73, 68, 58, 32, 97, 98>>

FieldHeads ==
    {<<>>, <<LINE_SWORD>>, <<LINE_RARE>>, <<LINE_MAGIC>>, <<LINE_RARE, LINE_NAME, LINE_SWORD>>}

FieldVocabulary ==
    {LINE_LIFE, LINE_IMPLICITS_1, LINE_CORRUPTED, LINE_ARMOUR, LINE_ARMOUR_7,
     LINE_SOCKETS, LINE_UNIQUE_ID, LINE_RARE, LINE_BLANK}

InitItemFields ==
    /\ pc = "ready"
    /\ output = <<>>
    /\ \E head \in FieldHeads : \E n \in 0..MaxFields : \E body \in [1..n -> FieldVocabulary] :
          input = [head |-> head, body |-> body, item_text |-> JoinLines(head \o body)]

SpecItemFields == InitItemFields /\ [][NextItemText]_vars

-----------------------------------------------------------------------------
(* Claims about the fields of the item record, under SpecItemText and
   SpecItemFields *)

\* C21: for every text, the empty one and the blank ones included, the dict
\* that parse_item_text returns holds implicit_mods, explicit_mods and
\* properties.
C21_CollectionsPresent ==
    pc = "parse_item_text" /\ output.err = "none" =>
        {"implicit_mods", "explicit_mods", "properties"} \subseteq output.keys

\* the first line is a rarity line
HasRarityLine == GivenLines # <<>> /\ StartsWith(GivenLines[1], RARITY_PREFIX)

\* the lines after the optional rarity line
AfterRarity == IF HasRarityLine THEN Tail(GivenLines) ELSE GivenLines

\* the rarity line says UNIQUE or RARE
NamedRarity == HasRarityLine /\ GivenLines[1] = LINE_RARE

\* the key of a key/value line
KeyOf(line) == PyStrip(BeforeColon(line))

IsKeyValueLine(line) ==
    /\ ~IsMarkerLine(line)
    /\ line # CORRUPTED_LINE
    /\ Contains(line, KEY_VALUE_MARK)

\* the record was made of the lines alone: as many modifiers as modifier
\* lines, the property keys of the key/value lines
MadeOf(lines) ==
    /\ Len(output.implicit_mods) + Len(output.explicit_mods)
           = Cardinality({i \in 1..Len(lines) : IsModifierLine(lines[i])})
    /\ DictKeys(output.properties)
           = {KeyOf(lines[i]) : i \in {j \in 1..Len(lines) :
                   IsKeyValueLine(lines[j]) /\ KeyOf(lines[j]) \notin {SOCKETS_KEY, UNIQUE_ID_KEY}}}

\* C22: after the optional rarity line, a UNIQUE or RARE item with at least
\* two lines left takes them as name and base_type; in every other case with
\* a line left that line is base_type, name stays unset, and the line is not
\* processed as a body line.
C22_NameAndBaseType ==
    ItemAccepted =>
        /\ NamedRarity /\ Len(AfterRarity) >= 2
               => /\ output.name = AfterRarity[1]
                  /\ output.base_type = AfterRarity[2]
                  /\ MadeOf(SubSeq(AfterRarity, 3, Len(AfterRarity)))
        /\ ~(NamedRarity /\ Len(AfterRarity) >= 2) /\ AfterRarity # <<>>
               => /\ "base_type" \in output.keys
                  /\ output.base_type = AfterRarity[1]
                  /\ output.name = <<>>
                  /\ MadeOf(Tail(AfterRarity))

ValueOf(line) == PyStrip(AfterColon(line))

\* the places of the key/value body lines with the key
PlacesOfKey(key) ==
    {i \in 1..Len(BodyLines) : IsKeyValueLine(BodyLines[i]) /\ KeyOf(BodyLines[i]) = key}

\* the value of the last of them
LastValueOf(key) ==
    ValueOf(BodyLines[CHOOSE i \in PlacesOfKey(key) : \A j \in PlacesOfKey(key) : j <= i])

\* C23: each body line is consumed by one rule, tried in the order marker,
\* "Corrupted", key/value, modifier: markers and "Corrupted" are in no
\* collection, a "Sockets" line sets only sockets and a "Unique ID" line only
\* unique_id, every other key/value line sets properties[key], the last
\* line of a key giving the value.
C23_OneRulePerLine ==
    ItemAccepted =>
        /\ MadeOf(BodyLines)
        /\ \A i \in 1..Len(output.implicit_mods) : IsModifierLine(output.implicit_mods[i])
        /\ \A i \in 1..Len(output.explicit_mods) : IsModifierLine(output.explicit_mods[i])
        /\ "corrupted" \in output.keys <=> \E i \in 1..Len(BodyLines) : BodyLines[i] = CORRUPTED_LINE
        /\ \A key \in DictKeys(output.properties) :
              DictAt(output.properties, key) = LastValueOf(key)
        /\ "sockets" \in output.keys <=> PlacesOfKey(SOCKETS_KEY) # {}
        /\ "sockets" \in output.keys => output.sockets = LastValueOf(SOCKETS_KEY)
        /\ "unique_id" \in output.keys <=> PlacesOfKey(UNIQUE_ID_KEY) # {}
        /\ "unique_id" \in output.keys => output.unique_id = LastValueOf(UNIQUE_ID_KEY)

\* "Armour: 5" and a "Sockets" line in the body, then
\* "Armour: 7"
C23_Witness ==
    /\ ItemAccepted
    /\ input.head = <<LINE_RARE, LINE_NAME, LINE_SWORD>>
    /\ input.body = <<LINE_ARMOUR, LINE_SOCKETS, LINE_ARMOUR_7>>
    /\ output.properties = <<[key |-> KeyOf(LINE_ARMOUR), vals |-> ValueOf(LINE_ARMOUR_7)]>>
    /\ output.sockets = ValueOf(LINE_SOCKETS)

\* the places of the later lines "Rarity: RARE"
LaterRarityLines == {i \in 2..Len(GivenLines) : GivenLines[i] = LINE_RARE}

\* C25: rarity is set iff the first non-blank line starts with "Rarity:";
\* a text that starts with another line has that line as base_type and no
\* name, and a later line "Rarity: X" does not set rarity but
\* properties["Rarity"] = X, the lines after the first being body lines.
C25_RarityOnlyFromFirstLine ==
    ItemAccepted =>
        /\ "rarity" \in output.keys <=> HasRarityLine
        /\ HasRarityLine => output.rarity = ValueOf(GivenLines[1])
        /\ ~HasRarityLine
               => /\ output.base_type = GivenLines[1]
                  /\ output.name = <<>>
                  /\ output.rarity = <<>>
                  /\ MadeOf(Tail(GivenLines))
                  /\ LaterRarityLines # {}
                         => /\ DictHas(output.properties, KeyOf(LINE_RARE))
                            /\ DictAt(output.properties, KeyOf(LINE_RARE)) = ValueOf(LINE_RARE)

\* a base type, then "Rarity: RARE" and a modifier line
C25_Witness ==
    /\ ItemAccepted
    /\ input.head = <<LINE_SWORD>>
    /\ input.body = <<LINE_RARE, LINE_LIFE>>
    /\ "rarity" \notin output.keys
    /\ output.base_type = LINE_SWORD
    /\ output.properties = <<[key |-> KeyOf(LINE_RARE), vals |-> ValueOf(LINE_RARE)]>>
    /\ output.explicit_mods = <<LINE_LIFE>>

-----------------------------------------------------------------------------
(* Claims about truncated buffers, under SpecProto *)

\* C26: whenever the top-level decode of a buffer returns a non-empty field
\* map, the decode position ended exactly at len(buffer), so that no stored
\* value was read from fewer bytes than its field declares.
C26_DecodeEndsAtLength ==
    (pc = "parse_message" /\ output # <<>>) => TopLevel.pos = Len(input.buffer)

-----------------------------------------------------------------------------
(* Specification of the decoder on one LENGTH_DELIMITED chunk *)

MaxChunk == 3

\* 0x00 and 0x08 (the tag of field 1) are control bytes; 0x20, 0x22, 0x23 and
\* 0x24 are the tags of field 4 as varint, chunk, group start and group end;
\* "A"; 0xC3 0xA9 is the UTF-8 encoding of U+00E9, 0xA9 alone a continuation
ChunkBytes == {0, 8, 32, 34, 35, 36, 65, 169, 195}

\* "chunk": the buffer is the chunk itself; "field": the chunk is field 1 of
\* the buffer; "names": the chunk is the only row of both columns of a ladder
ChunkShapes == {"chunk", "field", "names"}

ChunkBuffer(shape, chunk) ==
    IF shape = "chunk" THEN chunk
    ELSE IF shape = "field" THEN LengthDelimited(1, chunk)
    ELSE LadderPayload("ladder", <<chunk>>, <<chunk>>)

InitChunk ==
    /\ pc = "ready"
    /\ output = <<>>
    /\ \E n \in 0..MaxChunk : \E chunk \in [1..n -> ChunkBytes] :
       \E shape \in ChunkShapes :
            input = ProtoInput(ChunkBuffer(shape, chunk), shape, <<chunk>>, <<chunk>>)

NextChunk == CallTryParseMessage \/ CallParseMessage \/ CallParseBuildSearchPayload

SpecChunk == InitChunk /\ [][NextChunk]_vars

-----------------------------------------------------------------------------
(* Claims about chunks without control bytes, under SpecChunk *)

TheChunk == input.accounts[1]

NoControlByte == \A i \in 1..Len(TheChunk) : TheChunk[i] >= 32

IsAscii == \A i \in 1..Len(TheChunk) : TheChunk[i] < 128

\* the name a summary holds for the chunk
NameText == Utf8Decode(TheChunk, "replace").text

\* C28: a LENGTH_DELIMITED chunk that holds no byte of 0x00..0x1F is never
\* classified as a nested message: the probe rejects it, the field holds its
\* raw bytes, and as the row of the account and of the name column it is the
\* account and the character of the one summary, decoded to exactly its text
\* (an empty row gives no summary).
C28_TextIsNeverNested ==
    NoControlByte =>
        /\ (pc = "try_parse_message" /\ input.shape = "chunk") =>
                output = [message |-> <<>>, consumed |-> FALSE]
        /\ (pc = "parse_message" /\ input.shape = "field") =>
                output = <<[key |-> NatBits(1), vals |-> <<BytesVal(TheChunk)>>]>>
        /\ (pc = "parse_build_search_payload" /\ input.shape = "names") =>
                /\ output.err = "none"
                /\ output.summaries =
                        IF TheChunk = <<>> THEN <<>>
                        ELSE <<[account |-> NameText, character |-> NameText]>>
                /\ IsAscii => NameText = TheChunk
                /\ TheChunk = <<65, 195, 169>> => NameText = <<65, 233>>

\* the chunk " A" reads as a whole message (field 4, the varint 65), and is
\* stored as raw bytes all the same
C28_Witness ==
    /\ pc = "parse_message"
    /\ input.shape = "field"
    /\ TheChunk = <<32, 65>>
    /\ ParseMessageInternal(TheChunk, 0, 2) =
            ParseOk(<<[key |-> NatBits(4), vals |-> <<IntVal(NatBits(65))>>]>>, 2)
    /\ output = <<[key |-> NatBits(1), vals |-> <<BytesVal(<<32, 65>>)>>]>>

-----------------------------------------------------------------------------
(* The decoder step by step: the calls of _parse_message_internal and of
   _parse_group as a stack of frames, one step per loop iteration, call,
   return or exception *)

MaxDecode == 3

\* the tags of field 0 as 64BIT and as chunk (also the lengths 1 and 2); the
\* tags of field 1 as varint, group start and group end; 0x80, a varint byte
\* that asks for another one
DecodeBytes == {1, 2, 8, 11, 12, 128}

\* the calls the interpreter's stack has room for: more than a buffer of the
\* model can need
MaxDepth == MaxDecode + 2

\* the locals of one call: "message" is the call of _parse_message, "probe"
\* the call of _try_parse_message, "group" the call of _parse_group; into is
\* the field number the caller stores the result under (for a group, also
\* group_field); the loops of all three end at len(buffer)
Frame(kind, buffer, pos, into) ==
    [kind |-> kind, buffer |-> buffer, pos |-> pos, fields |-> <<>>, into |-> into]

Stack == output.stack

Top == Stack[Len(Stack)]

\* the loop condition of the running call
InLoop == pc = "decoding" /\ Top.pos < Len(Top.buffer)

\* key, pos = _decode_varint(buffer, pos)
TagOf(f) == DecodeVarint(f.buffer, f.pos)

FieldNumber(k) == ShiftRight(k.value, 3)

WireType(k) == LowBits(k.value, 3)

\* the break of _parse_group
EndsGroup(f, k) ==
    /\ f.kind = "group"
    /\ k.err = "none"
    /\ WireType(k) = WIRE_END_GROUP
    /\ FieldNumber(k) = f.into

\* the exception an iteration raises in its own call, k being its tag
IterationError(f, k) ==
    IF k.err # "none" THEN k.err
    ELSE IF WireType(k) \in {WIRE_VARINT, WIRE_LENGTH_DELIMITED}
    THEN DecodeVarint(f.buffer, k.pos).err
    ELSE IF WireType(k) \in {WIRE_64BIT, WIRE_START_GROUP, WIRE_32BIT} THEN "none"
    ELSE IF EndsGroup(f, k) THEN "none"
    ELSE "ValueError"

\* fields.setdefault(field_number, []).append(value), with the position the
\* call goes on from
StoreValue(f, field_number, value, pos) ==
    [f EXCEPT !.fields = SetDefaultAppend(f.fields, field_number, value), !.pos = pos]

ReplaceTop(stack, f) == [stack EXCEPT ![Len(stack)] = f]

\* a call from the top of the stack
Pushed(stack, frame) ==
    [output EXCEPT !.stack = Append(stack, frame),
                   !.deepest = Max(output.deepest, Len(stack))]

\* the innermost call of _try_parse_message, 0 if there is none
RECURSIVE InnermostProbe(_, _)
InnermostProbe(stack, i) ==
    IF i = 0 THEN 0
    ELSE IF stack[i].kind = "probe" THEN i
    ELSE InnermostProbe(stack, i - 1)

\* _parse_message calls _parse_message_internal(buffer, 0, len(buffer))
EnterParseMessage ==
    /\ pc = "ready"
    /\ pc' = "decoding"
    /\ output' = [stack |-> <<Frame("message", input.buffer, 0, <<>>)>>,
                  deepest |-> 0, message |-> <<>>]
    /\ UNCHANGED input

\* an iteration that reads a varint, a 64BIT or a 32BIT value
StepScalar ==
    /\ InLoop
    /\ \E k \in {TagOf(Top)} :
        /\ IterationError(Top, k) = "none"
        /\ WireType(k) \in {WIRE_VARINT, WIRE_64BIT, WIRE_32BIT}
        /\ \E v \in {ParseValue(Top.buffer, k.pos, WireType(k), FieldNumber(k))} :
            output' = [output EXCEPT
                         !.stack = ReplaceTop(Stack, StoreValue(Top, FieldNumber(k),
                                                                v.value, v.pos))]
    /\ UNCHANGED <<pc, input>>

\* an iteration that slices a chunk and calls _try_parse_message for it
StepChunk ==
    /\ InLoop
    /\ Len(Stack) < MaxDepth
    /\ \E k \in {TagOf(Top)} :
        /\ IterationError(Top, k) = "none"
        /\ WireType(k) = WIRE_LENGTH_DELIMITED
        /\ \E l \in {DecodeVarint(Top.buffer, k.pos)} :
           \E pos \in {l.pos + ToPos(l.value)} :
            output' = Pushed(ReplaceTop(Stack, [Top EXCEPT !.pos = pos]),
                             Frame("probe", Slice(Top.buffer, l.pos, pos), 0,
                                   FieldNumber(k)))
    /\ UNCHANGED <<pc, input>>

\* an iteration that calls _parse_group
StepGroup ==
    /\ InLoop
    /\ Len(Stack) < MaxDepth
    /\ \E k \in {TagOf(Top)} :
        /\ IterationError(Top, k) = "none"
        /\ WireType(k) = WIRE_START_GROUP
        /\ output' = Pushed(Stack, Frame("group", Top.buffer, k.pos, FieldNumber(k)))
    /\ UNCHANGED <<pc, input>>

\* _parse_group returns, at the end of the buffer or on its end marker
StepGroupReturn ==
    /\ pc = "decoding"
    /\ Top.kind = "group"
    /\ \E pos \in (IF ~InLoop THEN {Top.pos}
                   ELSE {k.pos : k \in {t \in {TagOf(Top)} : EndsGroup(Top, t)}}) :
        output' = [output EXCEPT
                     !.stack = ReplaceTop(SubSeq(Stack, 1, Len(Stack) - 1),
                                          StoreValue(Stack[Len(Stack) - 1], Top.into,
                                                     DictVal(Top.fields), pos))]
    /\ UNCHANGED <<pc, input>>

\* the value the caller of _try_parse_message stores: the message if the
\* probe consumed the chunk, else the chunk
Probed(caller, frame, r) ==
    StoreValue(caller, frame.into,
               NestedOrChunk(frame.buffer, ProbeResult(frame.buffer, r), caller.pos).value,
               caller.pos)

\* the loop of the probe ends: _try_parse_message tests the message, and the
\* caller stores it or the chunk
StepProbeReturn ==
    /\ pc = "decoding"
    /\ Top.kind = "probe"
    /\ ~InLoop
    /\ output' = [output EXCEPT
                    !.stack = ReplaceTop(SubSeq(Stack, 1, Len(Stack) - 1),
                                         Probed(Stack[Len(Stack) - 1], Top,
                                                ParseOk(Top.fields, Top.pos)))]
    /\ UNCHANGED <<pc, input>>

\* an exception inside a probe: the except clause of _try_parse_message ends
\* every call above it, and the caller stores the chunk
StepCatch ==
    /\ InLoop
    /\ \E k \in {TagOf(Top)} :
       \E e \in {IterationError(Top, k)} :
       \E p \in {InnermostProbe(Stack, Len(Stack))} :
        /\ e # "none"
        /\ p # 0
        /\ output' = [output EXCEPT
                        !.stack = ReplaceTop(SubSeq(Stack, 1, p - 1),
                                             Probed(Stack[p - 1], Stack[p],
                                                    ParseErr(e, <<>>, 0)))]
    /\ UNCHANGED <<pc, input>>

\* an exception outside every probe: the except clause of _parse_message
StepFail ==
    /\ InLoop
    /\ InnermostProbe(Stack, Len(Stack)) = 0
    /\ \E k \in {TagOf(Top)} :
       \E e \in {IterationError(Top, k)} :
        /\ e # "none"
        /\ output' = [output EXCEPT
                        !.stack = <<>>,
                        !.message = CatchParseErrors(ParseErr(e, <<>>, 0))]
    /\ pc' = "decoded"
    /\ UNCHANGED input

\* the loop of the outermost call ends: _parse_message returns the message
StepFinish ==
    /\ pc = "decoding"
    /\ Top.kind = "message"
    /\ ~InLoop
    /\ pc' = "decoded"
    /\ output' = [output EXCEPT !.stack = <<>>, !.message = Top.fields]
    /\ UNCHANGED input

\* every buffer of up to MaxDecode bytes over DecodeBytes, and the ladders
\* of one row
InitDecode ==
    /\ pc = "ready"
    /\ output = <<>>
    /\ \/ \E n \in 0..MaxDecode : \E buffer \in [1..n -> DecodeBytes] :
            input = ProtoInput(buffer, "raw", <<>>, <<>>)
       \/ \E shape \in LadderShapes, account, name \in RowStrings :
            input = ProtoInput(LadderPayload(shape, <<account>>, <<name>>), shape,
                               <<account>>, <<name>>)

NextDecode ==
    \/ EnterParseMessage
    \/ StepScalar
    \/ StepChunk
    \/ StepGroup
    \/ StepGroupReturn
    \/ StepProbeReturn
    \/ StepCatch
    \/ StepFail
    \/ StepFinish

SpecDecode == InitDecode /\ [][NextDecode]_vars

\* the interpreter runs the call until it returns
SpecDecodeFair == SpecDecode /\ WF_vars(NextDecode)

-----------------------------------------------------------------------------
(* Claims about termination, under SpecDecodeFair *)

\* the calls below the outermost one are no more than the buffer has bytes; a
\* probe runs on a chunk shorter than the buffer of its caller; a group runs
\* on the buffer of its caller, from a position beyond the tag that opened it
FramesBounded ==
    /\ pc = "decoding" =>
        /\ Len(Stack) - 1 <= Len(input.buffer)
        /\ \A i \in 2..Len(Stack) :
            IF Stack[i].kind = "probe"
            THEN Len(Stack[i].buffer) < Len(Stack[i - 1].buffer)
            ELSE /\ Stack[i].kind = "group"
                 /\ Stack[i].buffer = Stack[i - 1].buffer
                 /\ Stack[i].pos > Stack[i - 1].pos
    /\ pc \in {"decoding", "decoded"} => output.deepest <= Len(input.buffer)

\* a step inside the decode: an iteration that stores a value moves the
\* position of its call forward; so does one that slices a chunk, before the
\* probe is called; a group is called at a position beyond that of its
\* caller, and when it returns the caller goes on beyond its own; the return
\* of a probe, or its except clause, leaves the caller where the slice put it
StepAdvances ==
    (pc = "decoding" /\ pc' = "decoding") =>
        LET n == Len(Stack)
            m == Len(output'.stack)
        IN  IF m = n THEN output'.stack[n].pos > Stack[n].pos
            ELSE IF m = n + 1
            THEN IF output'.stack[m].kind = "probe"
                 THEN output'.stack[n].pos > Stack[n].pos
                 ELSE output'.stack[m].pos > Stack[n].pos
            ELSE /\ m < n
                 /\ IF Stack[m + 1].kind = "group"
                    THEN output'.stack[m].pos > Stack[m].pos
                    ELSE output'.stack[m].pos = Stack[m].pos

\* C27: decoding terminates on every buffer: every iteration of the message
\* loop and of the group loop moves the position forward, every probe runs on
\* a chunk shorter than the buffer that holds it, every group starts at a
\* larger position, the nesting of calls is bounded by the buffer length, and
\* _parse_message returns.
C27_DecodingTerminates ==
    /\ []FramesBounded
    /\ [][StepAdvances]_vars
    /\ <>(pc = "decoded")

\* a ladder is decoded through three nested probes (container, column, row)
\* and gives the message the decoder returns
C27_Witness ==
    /\ pc = "decoded"
    /\ input.shape = "ladder"
    /\ output.deepest = 3
    /\ output.message # <<>>
    /\ output.message = ParseMessage(input.buffer)

-----------------------------------------------------------------------------
(* POST /builds/parse: parse_build *)

\* the documents of the requests, each with what the parser does with it:
\* "build" (a Build), "invalid" (ValueError), "crash" (another exception)
RequestDocument(kind, events) == [kind |-> kind, events |-> events]

QuotedItemSet ==
    Node("PathOfBuilding", <<>>,
         Node("Build", CompleteBuild, <<>>)
            \o Node("Items", <<Attribute("activeItemSet", ID_QUOTED)>>, <<>>))

RequestDocuments ==
    {RequestDocument("build", Document("child", 0, CompleteBuild, <<>>)),
     RequestDocument("build", Document("child", 0,
                                       CompleteBuild \o <<Attribute("buildName", ZED)>>,
                                       ItemsWith(LINE_SWORD))),
     RequestDocument("invalid", Document("child", 0, <<Attribute("level", LEVEL_90)>>, <<>>)),
     RequestDocument("invalid", Document("child", 0,
                                         <<Attribute("className", WITCH),
                                           Attribute("level", LEVEL_X)>>, <<>>)),
     RequestDocument("invalid", Document("none", 0, CompleteBuild, <<>>)),
     RequestDocument("invalid", Broken(Document("child", 0, CompleteBuild, <<>>), "unclosed")),
     RequestDocument("invalid",
                     Document("child", 0, CompleteBuild,
                              ItemsWith(LINE_SWORD \o <<NEWLINE>> \o LINE_IMPLICITS_X))),
     RequestDocument("crash", QuotedItemSet)}

\* " ", "!", "ab==" and "eJwHAA==": empty once the white space is removed, a
\* character outside the alphabets, a truncated stream, an invalid block type
BadCodes == {<<32>>, <<33>>, <<97, 98, 61, 61>>, <<101, 74, 119, 72, 65, 65, 61, 61>>}

\* pob_xml and pob_code are None (absent) or a string of at least one
\* character (min_length=1 of PoBParseRequest); the XML of a request is given
\* by the events expat reports for it, an import code by its characters and by
\* the events expat reports for the text it decodes to
Absent == [given |-> FALSE, kind |-> "absent", value |-> <<>>, events |-> <<>>]

Given(kind, value, events) ==
    [given |-> TRUE, kind |-> kind, value |-> value, events |-> events]

XmlInputs == {Absent} \cup {Given(d.kind, <<>>, d.events) : d \in RequestDocuments}

\* the import codes of the text ">", as they are and with a newline inside
CodeInputs ==
    {Absent}
        \cup {Given(d.kind, WithNewline(ImportCode(<<62>>, StandardAlphabet), w),
                    d.events) :
                d \in RequestDocuments, w \in {5, 100}}
        \cup {Given("invalid", code, <<>>) : code \in BadCodes}

\* parse_pob_code: decoded is what decode_pob_code_to_xml returned or raised,
\* events what expat reports for the decoded text
ParseDecoded(decoded, events, game) ==
    IF decoded.err # "none" THEN Raises(decoded.err, decoded.message)
    ELSE ParsePobXml(events, game)

ParsePobCode(import_code, game) ==
    ParseDecoded(DecodePobCodeToXml(import_code.value), import_code.events, game)

\* the build parsed from the XML although an import code came with it
ParseRequestXmlFirst(request, game) ==
    IF request.pob_xml.given THEN ParsePobXml(request.pob_xml.events, game)
    ELSE ParsePobCode(request.pob_code, game)

\* if request.pob_code: parse_pob_code(...) else: parse_pob_xml(...)
ParseRequest(request, game) ==
    IF request.pob_code.given THEN ParsePobCode(request.pob_code, game)
    ELSE ParsePobXml(request.pob_xml.events, game)

HTTP_200_OK == 200

HTTP_400_BAD_REQUEST == 400

HTTP_422_UNPROCESSABLE_ENTITY == 422

HTTP_500_INTERNAL_SERVER_ERROR == 500

\* the handler's state: the response status (0 while there is none), the
\* parsed build, the derived stats, and the sessions the store holds
NoResponse ==
    [status |-> 0, build |-> NoBuild, derived_stats |-> "None", sessions |-> <<>>]

\* the XML handed to run_pob: the request's, else the import code decoded
\* once more, None if that raises
XmlForRunner(request) ==
    IF request.pob_xml.given THEN "pob_xml"
    ELSE IF DecodePobCodeToXml(request.pob_code.value).err = "none" THEN "pob_code"
    ELSE "None"

\* derived_stats or None: run_pob returns {} when its tooling is missing
DerivedStats(xml_for_runner, runner) ==
    IF xml_for_runner # "None" /\ runner = "stats" THEN xml_for_runner ELSE "None"

\* session_data
SessionData(build, request, derived_stats) ==
    [build |-> build,
     pob_code |-> IF request.pob_code.given THEN request.pob_code.value ELSE <<>>,
     derived_stats |-> derived_stats]

\* the except clauses of parse_build
Responded(build) ==
    [NoResponse EXCEPT
        !.status = IF build.err = "ValueError" THEN HTTP_422_UNPROCESSABLE_ENTITY
                   ELSE HTTP_500_INTERNAL_SERVER_ERROR]

\* neither input: HTTPException 400, raised ahead of the try block
ParseBuildMissingInput ==
    /\ pc = "ready"
    /\ "request" \in DOMAIN input
    /\ ~input.request.pob_xml.given /\ ~input.request.pob_code.given
    /\ pc' = "responded"
    /\ output' = [NoResponse EXCEPT !.status = HTTP_400_BAD_REQUEST]
    /\ UNCHANGED input

\* the parse and run_pob, up to the await of create_session
ParseBuildParse ==
    /\ pc = "ready"
    /\ "request" \in DOMAIN input
    /\ input.request.pob_xml.given \/ input.request.pob_code.given
    /\ \E build \in {ParseRequest(input.request, input.game)} :
        IF build.err # "none"
        THEN /\ pc' = "responded"
             /\ output' = Responded(build)
        ELSE /\ pc' = "create_session"
             /\ output' = [NoResponse EXCEPT
                             !.build = build,
                             !.derived_stats = DerivedStats(XmlForRunner(input.request),
                                                            input.runner)]
    /\ UNCHANGED input

\* create_session stores the session, or cache.setex raises and the handler
\* answers 500
ParseBuildCreateSession ==
    /\ pc = "create_session"
    /\ pc' = "responded"
    /\ output' = IF input.redis_up
                 THEN [output EXCEPT
                         !.status = HTTP_200_OK,
                         !.sessions = Append(@, SessionData(output.build, input.request,
                                                            output.derived_stats))]
                 ELSE [NoResponse EXCEPT !.status = HTTP_500_INTERNAL_SERVER_ERROR]
    /\ UNCHANGED input

InitParseBuild ==
    /\ pc = "ready"
    /\ output = NoResponse
    /\ \E pob_xml \in XmlInputs, pob_code \in CodeInputs, game \in Games,
          redis_up \in BOOLEAN, runner \in {"missing", "stats"} :
            input = [request |-> [pob_xml |-> pob_xml, pob_code |-> pob_code],
                     game |-> game, redis_up |-> redis_up, runner |-> runner]

NextParseBuild == ParseBuildMissingInput \/ ParseBuildParse \/ ParseBuildCreateSession

SpecParseBuild == InitParseBuild /\ [][NextParseBuild]_vars

-----------------------------------------------------------------------------
(* Claims about parse_build, under SpecParseBuild *)

\* what the claim says is parsed: the import code when there is one
ParsedInput ==
    IF input.request.pob_code.given THEN input.request.pob_code ELSE input.request.pob_xml

\* C24: a request with neither input is answered 400; a request whose import
\* code (when there is one, else whose XML) fails validation in the codec or
\* in the XML parser is answered 422; in both cases no session is created. A
\* session is created at most once, only once the parse has succeeded, and
\* exactly once in a request answered 200; it holds the build parsed from the
\* import code when both inputs are there.
C24_ParseThenCreateSession ==
    /\ Len(output.sessions) <= 1
    /\ pc = "create_session" => ParsedInput.kind = "build" /\ output.sessions = <<>>
    /\ pc = "responded" =>
        /\ ParsedInput.kind = "absent" =>
                output.status = HTTP_400_BAD_REQUEST /\ output.sessions = <<>>
        /\ ParsedInput.kind = "invalid" =>
                output.status = HTTP_422_UNPROCESSABLE_ENTITY /\ output.sessions = <<>>
        /\ output.sessions # <<>> =>
                /\ ParsedInput.kind = "build"
                /\ output.status = HTTP_200_OK
                /\ output.sessions[1].build = ParsePobXml(ParsedInput.events, input.game)
        /\ output.status = HTTP_200_OK => Len(output.sessions) = 1

\* both inputs, the XML a build and the import code one the codec rejects
C24_Witness ==
    /\ pc = "responded"
    /\ input.request.pob_xml.kind = "build"
    /\ input.request.pob_code.kind = "invalid"
    /\ input.request.pob_code.value \in BadCodes
    /\ input.redis_up
    /\ output.status = HTTP_422_UNPROCESSABLE_ENTITY
    /\ output.sessions = <<>>

-----------------------------------------------------------------------------
(* Session storage: one session id, its key in Redis, and the calls of
   create_session, get_session, update_session and delete_session by
   concurrent requests; every Redis command is atomic, and the await around it
   lets the other requests and the expiry of the key run in between *)

\* the requests that call update_session
Updaters == {"u1", "u2"}

\* json.dumps of the data a session is created with and updated to
SessionValues == {"build", "weights", "stats"}

\* the key is absent
NoKey == "None"

\* output: store is the value of the key; gone says that delete_session
\* returned True or the key expired since the id was last created; task is
\* where each update_session stands ("idle", or "exists" after EXISTS answered
\* 1); value is what the last call returned, replaced whether the SETEX of
\* the last update_session found the key
SessionState(store, gone, task, value, replaced) ==
    [store |-> store, gone |-> gone, task |-> task, value |-> value, replaced |-> replaced]

\* create_session: SETEX of a key not in use (a new uuid4)
CreateSession ==
    /\ "updates" \in DOMAIN input
    /\ output.store = NoKey
    /\ pc' = "create_session"
    /\ output' = [output EXCEPT !.store = "build", !.gone = FALSE, !.value = "session_id"]
    /\ UNCHANGED input

\* get_session: GET, then json.loads
GetSession ==
    /\ "updates" \in DOMAIN input
    /\ pc' = "get_session"
    /\ output' = [output EXCEPT !.value = output.store]
    /\ UNCHANGED input

\* update_session up to its second await: EXISTS, and the return of False
UpdateExists(u) ==
    /\ "updates" \in DOMAIN input
    /\ output.task[u] = "idle"
    /\ IF output.store # NoKey
       THEN /\ pc' = "exists"
            /\ output' = [output EXCEPT !.task[u] = "exists"]
       ELSE /\ pc' = "update_session"
            /\ output' = [output EXCEPT !.value = "False", !.replaced = FALSE]
    /\ UNCHANGED input

\* the rest of update_session: SETEX, and the return of True
UpdateSetex(u) ==
    /\ "updates" \in DOMAIN input
    /\ output.task[u] = "exists"
    /\ pc' = "update_session"
    /\ output' = [output EXCEPT
                    !.task[u] = "idle",
                    !.store = input.updates[u],
                    !.value = "True",
                    !.replaced = output.store # NoKey]
    /\ UNCHANGED input

\* delete_session: DEL, and bool(deleted)
DeleteSession ==
    /\ "updates" \in DOMAIN input
    /\ pc' = "delete_session"
    /\ output' = [output EXCEPT
                    !.store = NoKey,
                    !.gone = output.gone \/ output.store # NoKey,
                    !.value = IF output.store # NoKey THEN "True" ELSE "False"]
    /\ UNCHANGED input

\* the TTL of the key runs out
Expire ==
    /\ "updates" \in DOMAIN input
    /\ output.store # NoKey
    /\ pc' = "expired"
    /\ output' = [output EXCEPT !.store = NoKey, !.gone = TRUE]
    /\ UNCHANGED input

\* no session yet; the updaters are given the data they write
InitSession ==
    /\ pc = "ready"
    /\ output = SessionState(NoKey, FALSE, [u \in Updaters |-> "idle"], NoKey, FALSE)
    /\ \E updates \in [Updaters -> SessionValues \ {"build"}] :
            input = [session_id |-> "id", updates |-> updates]

NextSession ==
    \/ CreateSession
    \/ GetSession
    \/ \E u \in Updaters : UpdateExists(u)
    \/ \E u \in Updaters : UpdateSetex(u)
    \/ DeleteSession
    \/ Expire

SpecSession == InitSession /\ [][NextSession]_vars

-----------------------------------------------------------------------------
(* Claims about the session storage, under SpecSession *)

\* C29: update_session never creates or re-creates a session: once
\* delete_session has returned True or the key has expired, and until
\* create_session produces the id again, the key stays absent and get_session
\* returns None, whatever update_session, delete_session and the expiry do in
\* between; and update_session returns True only if its write replaced an
\* existing session.
C29_UpdateNeverRecreates ==
    /\ output.gone => output.store = NoKey
    /\ (pc = "get_session" /\ output.gone) => output.value = NoKey
    /\ (pc = "update_session" /\ output.value = "True") => output.replaced

-----------------------------------------------------------------------------
(* Trade API client: search_and_fetch_items with search_items and
   fetch_items, step by step; the requests the client sends and the
   responses it is given are kept, in their order, in output.log *)

\* the largest limit of a call, and the most ids a search response holds
MaxLimit == 12
MaxIds == 12

\* the ids of a search response of n results, in the order of the response
\* (the dearest item has the smallest id, and the cheapest comes first)
SearchOrder(n) == [i \in 1..n |-> n + 1 - i]

\* TRADE_API_URLS
TradeApiUrl(game) == IF game = "poe1" THEN "api/trade" ELSE "api/trade2"

\* Python's list[:stop]
UpTo(list, stop) ==
    IF stop >= 0
    THEN SubSeq(list, 1, Min(stop, Len(list)))
    ELSE SubSeq(list, 1, Max(Len(list) + stop, 0))

\* fetch_items sends the first 10 ids
FETCH_IDS == 10

\* mutation of FetchIds: every id is sent
FetchEveryId(result_ids) == result_ids

\* the ids of the fetch URL
FetchIds(result_ids) == UpTo(result_ids, FETCH_IDS)

\* what the Trade API answers: a status that raise_for_status accepts or
\* not, and a body with or without the key "result"
ResponseKinds == {"result", "no result", "error"}

Request(method, path, ids) == [method |-> method, path |-> path, ids |-> ids]

\* data.get("result", []) of the search response
SearchResult == IF input.search = "result" THEN SearchOrder(input.ids) ELSE <<>>

\* data.get("result", []) of the fetch response: one item for every id asked
\* for, or a body without the key
FetchResult(ids) ==
    IF input.fetch = "result" THEN [i \in 1..Len(ids) |-> [id |-> ids[i]]] ELSE <<>>

TradeState(log, result_ids, result, err) ==
    [log |-> log, result_ids |-> result_ids, result |-> result, err |-> err]

\* search_and_fetch_items calls search_items, which sends the POST
SearchPost ==
    /\ pc = "ready"
    /\ "limit" \in DOMAIN input
    /\ pc' = "post"
    /\ output' = [output EXCEPT
                    !.log = Append(@, Request("POST", <<TradeApiUrl(input.game), "search", input.league>>, <<>>))]
    /\ UNCHANGED input

\* the POST returns: search_items raises or returns result_ids, and
\* search_and_fetch_items returns [] when there is none
SearchReturn ==
    /\ pc = "post"
    /\ \E log \in {Append(output.log, Request(input.search, <<TradeApiUrl(input.game), "search", input.league>>, SearchResult))} :
       \E result_ids \in {UpTo(SearchResult, input.limit)} :
            IF input.search = "error"
            THEN /\ pc' = "raised"
                 /\ output' = [output EXCEPT !.log = log, !.err = "HTTPStatusError"]
            ELSE IF result_ids = <<>>
            THEN /\ pc' = "returned"
                 /\ output' = [output EXCEPT !.log = log, !.result = <<>>]
            ELSE /\ pc' = "searched"
                 /\ output' = [output EXCEPT !.log = log, !.result_ids = result_ids]
    /\ UNCHANGED input

\* fetch_items: nothing to fetch, or the GET
FetchGet ==
    /\ pc = "searched"
    /\ IF output.result_ids = <<>>
       THEN /\ pc' = "returned"
            /\ output' = [output EXCEPT !.result = <<>>]
       ELSE /\ pc' = "get"
            /\ output' = [output EXCEPT
                            !.log = Append(@, Request("GET", <<TradeApiUrl(input.game), "fetch">>, FetchIds(output.result_ids)))]
    /\ UNCHANGED input

\* the GET returns: fetch_items raises or returns the items
FetchReturn ==
    /\ pc = "get"
    /\ \E asked \in {output.log[Len(output.log)].ids} :
       \E log \in {Append(output.log, Request(input.fetch, <<TradeApiUrl(input.game), "fetch">>, FetchResult(asked)))} :
            IF input.fetch = "error"
            THEN /\ pc' = "raised"
                 /\ output' = [output EXCEPT !.log = log, !.err = "HTTPStatusError"]
            ELSE /\ pc' = "returned"
                 /\ output' = [output EXCEPT !.log = log, !.result = FetchResult(asked)]
    /\ UNCHANGED input

\* a call with a limit, and the answers the Trade API will give to it
InitTrade ==
    /\ pc = "ready"
    /\ output = TradeState(<<>>, <<>>, <<>>, "")
    /\ \E game \in Games, limit \in 0..MaxLimit, ids \in 0..MaxIds,
          search \in ResponseKinds, fetch \in ResponseKinds :
            /\ search # "result" => ids = 0
            /\ input = [game |-> game, league |-> "Standard", limit |-> limit,
                        search |-> search, ids |-> ids, fetch |-> fetch]

NextTrade == SearchPost \/ SearchReturn \/ FetchGet \/ FetchReturn

SpecTrade == InitTrade /\ [][NextTrade]_vars

-----------------------------------------------------------------------------
(* Claims about the Trade API client, under SpecTrade *)

\* the places of the requests of a method in the log
Sent(method) == {i \in 1..Len(output.log) : output.log[i].method = method}

\* C30: search_and_fetch_items sends exactly one search POST and then at most
\* one fetch GET, the GET after the POST has returned; the GET is sent only
\* if the search returned at least one id, and it asks for the first
\* min(limit, 10, number of ids returned) ids in the order of the search;
\* when the search returns no id the result is the empty list and no GET is
\* sent.
C30_OnePostThenOneGet ==
    /\ pc # "ready" =>
            /\ Cardinality(Sent("POST")) = 1
            /\ output.log[1].method = "POST"
    /\ Cardinality(Sent("GET")) <= 1
    /\ \A g \in Sent("GET") :
            /\ g = 3
            /\ output.log[2] = Request("result", <<TradeApiUrl(input.game), "search", input.league>>, SearchOrder(input.ids))
            /\ input.ids >= 1
            /\ output.log[g].ids =
                    SubSeq(SearchOrder(input.ids), 1, Min(input.limit, Min(FETCH_IDS, input.ids)))
    /\ (pc \in {"returned", "raised"} /\ input.search # "error" /\ input.ids = 0) =>
            /\ pc = "returned"
            /\ output.result = <<>>
            /\ Sent("GET") = {}

\* a call with limit 12 whose search returned 12 ids: the GET asked for the
\* first ten, and their items are the result
C30_Witness ==
    /\ pc = "returned"
    /\ "limit" \in DOMAIN input
    /\ input.limit = MaxLimit
    /\ input.ids = MaxIds
    /\ Len(output.log) = 4
    /\ output.log[3] = Request("GET", <<TradeApiUrl(input.game), "fetch">>, SubSeq(SearchOrder(MaxIds), 1, FETCH_IDS))
    /\ Len(output.result) = FETCH_IDS

=============================================================================
